---- MODULE Spec2Model ----
(***************************************************************************)
(* The dictionary renderer of raycast-dictionary (class Dictionary) as a   *)
(* state machine.  A JavaScript string is the sequence of its characters,  *)
(* each a one-character string; an array is a sequence; an object used as  *)
(* a dictionary is the sequence of its own properties in the order         *)
(* Object.entries lists them.                                              *)
(***************************************************************************)
EXTENDS Integers, Sequences, FiniteSets, TLC

VARIABLES
    language,        \* Dictionary.language of the instance
    word,            \* Dictionary.word of the instance
    urlWord,         \* Dictionary.urlWord of the instance
    entry,           \* the DictionaryEntry the upstream source answers with
    pronunciations,  \* argument of renderPronunciations
    forms,           \* argument of renderForms
    senses,          \* argument of renderSenses
    md,              \* the string the last call on the instance returned (NotRun
                     \* before it, Rejected when its promise rejected)
    calls,           \* history: the last two renderMarkdown calls
    res,             \* how the upstream fetch of the last fetchEntry call on the
                     \* instance ended (NoResponse before it)
    storage,         \* the array LocalStorage holds under Favorite.key
    pending,         \* the calls of Favorite suspended at their await, each with
                     \* the array its getEntries read
    markdown         \* the state `markdown` of the search command

vars == <<language, word, urlWord, entry, pronunciations, forms, senses, md, calls, res,
          storage, pending, markdown>>

NotRun == <<"<not run>">>
Rejected == <<"<rejected>">>
NoResponse == "none"

\* useState<string>("Loading...")
Loading == <<"L","o","a","d","i","n","g",".",".",".">>

----------------------------------------------------------------------------
(* JavaScript String and Array methods the renderer uses.                  *)

Min(a, b) == IF a < b THEN a ELSE b

LowerAlphabet == <<"a","b","c","d","e","f","g","h","i","j","k","l","m","n","o","p","q","r","s","t","u","v","w","x","y","z">>
UpperAlphabet == <<"A","B","C","D","E","F","G","H","I","J","K","L","M","N","O","P","Q","R","S","T","U","V","W","X","Y","Z">>
Digits == <<"0","1","2","3","4","5","6","7","8","9">>

upperChar(c) ==
    IF \E i \in 1..Len(LowerAlphabet) : LowerAlphabet[i] = c
    THEN UpperAlphabet[CHOOSE i \in 1..Len(LowerAlphabet) : LowerAlphabet[i] = c]
    ELSE c

lowerChar(c) ==
    IF \E i \in 1..Len(UpperAlphabet) : UpperAlphabet[i] = c
    THEN LowerAlphabet[CHOOSE i \in 1..Len(UpperAlphabet) : UpperAlphabet[i] = c]
    ELSE c

\* String.prototype.toUpperCase / toLowerCase
toUpperCase(s) == IF Len(s) = 0 THEN <<>> ELSE [i \in 1..Len(s) |-> upperChar(s[i])]
toLowerCase(s) == IF Len(s) = 0 THEN <<>> ELSE [i \in 1..Len(s) |-> lowerChar(s[i])]

\* String.prototype.slice(b, e) for 0 <= b, 0 <= e (0-based, e exclusive)
slice(s, b, e) ==
    LET lo == Min(b, Len(s))
        hi == Min(e, Len(s))
    IN  IF hi <= lo THEN <<>> ELSE SubSeq(s, lo + 1, hi)

sliceFrom(s, b) == slice(s, b, Len(s))

\* String.prototype.indexOf(sub): 0-based index of the first occurrence, or -1
indexOf(s, sub) ==
    LET at == {i \in 0..(Len(s) - Len(sub)) : slice(s, i, i + Len(sub)) = sub}
    IN  IF at = {} THEN -1 ELSE CHOOSE i \in at : \A j \in at : i <= j

\* String.prototype.includes(sub)
includes(s, sub) == indexOf(s, sub) >= 0

\* String.prototype.replaceAll(pat, rep), pat a non-empty string: the
\* occurrences are found left to right, each search resuming after the
\* previous match; the replacement text is not searched again.
RECURSIVE replaceAll(_, _, _)
replaceAll(s, pat, rep) ==
    LET i == indexOf(s, pat)
    IN  IF i < 0 THEN s
        ELSE slice(s, 0, i) \o rep \o replaceAll(sliceFrom(s, i + Len(pat)), pat, rep)

\* Array.prototype.join(sep) of an array of strings
RECURSIVE join(_, _)
join(arr, sep) ==
    IF Len(arr) = 0 THEN <<>>
    ELSE IF Len(arr) = 1 THEN arr[1]
    ELSE arr[1] \o sep \o join(Tail(arr), sep)

\* String.prototype.repeat(n)
RECURSIVE repeat(_, _)
repeat(s, n) == IF n = 0 THEN <<>> ELSE s \o repeat(s, n - 1)

\* The decimal text of a natural number, as a template literal prints it
RECURSIVE numToString(_)
numToString(n) ==
    IF n < 10 THEN <<Digits[n + 1]>>
    ELSE numToString(n \div 10) \o <<Digits[(n % 10) + 1]>>

\* Array.prototype.includes(x)
arrayIncludes(arr, x) == \E i \in 1..Len(arr) : arr[i] = x

\* arr.find(v => other.includes(v)), by the index of the element found; 0 if none
findIncluded(arr, other) ==
    LET at == {i \in 1..Len(arr) : arrayIncludes(other, arr[i])}
    IN  IF at = {} THEN 0 ELSE CHOOSE i \in at : \A j \in at : i <= j

\* isEmptyArray answering that no array is empty
neverEmptyArray(arr) == FALSE

\* !arr || !arr.length, for an array that is present
isEmptyArray(arr) == Len(arr) = 0

\* the concatenation of an array of strings
RECURSIVE concatAll(_)
concatAll(arr) == IF Len(arr) = 0 THEN <<>> ELSE arr[1] \o concatAll(Tail(arr))

----------------------------------------------------------------------------
(* A JavaScript object used as a dictionary: the sequence of its own       *)
(* properties [key, value] in own-property order: the keys that are array  *)
(* indices first, in ascending numeric order, then the other keys in the   *)
(* order they were created.                                                *)

MaxArrayIndex == <<"4","2","9","4","9","6","7","2","9","4">>

isDigit(c) == \E i \in 1..Len(Digits) : Digits[i] = c
digitValue(c) == (CHOOSE i \in 1..Len(Digits) : Digits[i] = c) - 1

\* a < b for two canonical decimal numerals
numeralLess(a, b) ==
    \/ Len(a) < Len(b)
    \/ /\ Len(a) = Len(b)
       /\ \E i \in 1..Len(a) :
            /\ \A j \in 1..(i - 1) : a[j] = b[j]
            /\ digitValue(a[i]) < digitValue(b[i])

isArrayIndex(k) ==
    /\ Len(k) > 0
    /\ \A i \in 1..Len(k) : isDigit(k[i])
    /\ Len(k) = 1 \/ k[1] # "0"
    /\ k = MaxArrayIndex \/ numeralLess(k, MaxArrayIndex)

objHas(o, k) == \E i \in 1..Len(o) : o[i].key = k

objGet(o, k) == o[CHOOSE i \in 1..Len(o) : o[i].key = k].value

\* o[k] = v
objSet(o, k, v) ==
    IF objHas(o, k)
    THEN [i \in 1..Len(o) |-> IF o[i].key = k THEN [key |-> k, value |-> v] ELSE o[i]]
    ELSE LET before ==
                 IF isArrayIndex(k)
                 THEN Cardinality({i \in 1..Len(o) :
                          isArrayIndex(o[i].key) /\ numeralLess(o[i].key, k)})
                 ELSE Len(o)
         IN  slice(o, 0, before) \o <<[key |-> k, value |-> v]>> \o sliceFrom(o, before)

----------------------------------------------------------------------------
(* Dictionary.renderPronunciations                                         *)

\* pushPronunciation giving the group the type of its latest contributor
pushPronunciationLatestType(grouped, key, p) ==
    LET texts == IF objHas(grouped, key) THEN objGet(grouped, key).text ELSE <<>>
    IN  objSet(grouped, key, [type |-> p.type, text |-> Append(texts, p.text)])

\* grouped[key] is created on first use with the type of p, then p.text is pushed
pushPronunciation(grouped, key, p) ==
    LET g == IF ~objHas(grouped, key)
             THEN objSet(grouped, key, [type |-> p.type, text |-> <<>>])
             ELSE grouped
        group == objGet(g, key)
    IN  objSet(g, key, [type |-> group.type, text |-> Append(group.text, p.text)])

\* p.tags.forEach(tag => ...), from the i-th tag on
RECURSIVE groupByTags(_, _, _)
groupByTags(grouped, p, i) ==
    IF i > Len(p.tags) THEN grouped
    ELSE groupByTags(pushPronunciation(grouped, p.tags[i], p), p, i + 1)

\* groupPronunciation filing p under its first tag only
groupPronunciationFirstTag(grouped, p) ==
    IF Len(p.tags) > 0
    THEN pushPronunciation(grouped, p.tags[1], p)
    ELSE pushPronunciation(grouped, <<"-">>, p)

\* one pass of pronunciations.forEach
groupPronunciation(grouped, p) ==
    IF Len(p.tags) > 0
    THEN groupByTags(grouped, p, 1)
    ELSE pushPronunciation(grouped, <<"-">>, p)

RECURSIVE groupPronunciationsFrom(_, _, _)
groupPronunciationsFrom(grouped, ps, i) ==
    IF i > Len(ps) THEN grouped
    ELSE groupPronunciationsFrom(groupPronunciation(grouped, ps[i]), ps, i + 1)

groupPronunciations(ps) == groupPronunciationsFrom(<<>>, ps, 1)

pronunciationRow(region, group) ==
    <<"|"," ">> \o region \o <<" ","|"," ">> \o join(group.text, <<","," ">>) \o <<" ","|"," ">> \o group.type \o <<" ","|","\n">>

renderPronunciations(ps) ==
    IF isEmptyArray(ps) THEN <<>>
    ELSE LET grouped == groupPronunciations(ps)
         IN  IF Len(grouped) = 0 THEN <<>>
             ELSE <<"|"," ","D","i","a","l","e","c","t"," ","|"," ","P","r","o","n","u","n","c","i","a","t","i","o","n"," ","|"," ","P","h","o","n","e","t","i","c"," ","S","y","s","t","e","m"," ","|"," ","\n","|","-","-","-","|","-","-","-","|","-","-","-","|","\n">>
                  \o concatAll([i \in 1..Len(grouped) |->
                                   pronunciationRow(grouped[i].key, grouped[i].value)])
                  \o <<"\n","\n">>

----------------------------------------------------------------------------
(* Dictionary.renderForms                                                  *)

invalidTags == << <<"i","n","f","l","e","c","t","i","o","n","-","t","e","m","p","l","a","t","e">>, <<"t","a","b","l","e","-","t","a","g","s">>, <<"c","l","a","s","s">> >>

\* complexConjugationsLanguages with its last code missing
complexConjugationsLanguagesWithoutLast ==
    << <<"c","a">>, <<"c","s">>, <<"f","r">>, <<"d","e">>, <<"e","l">>, <<"h","u">>, <<"i","t">>, <<"l","a">>, <<"p","t">>, <<"r","o">>, <<"r","u">>, <<"s","h">>,
       <<"e","s">> >>

complexConjugationsLanguages ==
    << <<"c","a">>, <<"c","s">>, <<"f","r">>, <<"d","e">>, <<"e","l">>, <<"h","u">>, <<"i","t">>, <<"l","a">>, <<"p","t">>, <<"r","o">>, <<"r","u">>, <<"s","h">>,
       <<"e","s">>, <<"n","l">> >>

nonfiniteMoods == << <<"g","e","r","u","n","d">>, <<"p","a","r","t","i","c","i","p","l","e">>, <<"i","n","f","i","n","i","t","i","v","e">> >>

moods == << <<"i","n","d","i","c","a","t","i","v","e">>, <<"s","u","b","j","u","n","c","t","i","v","e","-","i">>, <<"s","u","b","j","u","n","c","t","i","v","e","-","i","i">>, <<"s","u","b","j","u","n","c","t","i","v","e">>, <<"i","m","p","e","r","a","t","i","v","e">> >>

tenses ==
    << <<"f","u","t","u","r","e","-","i">>, <<"f","u","t","u","r","e","-","i","i">>, <<"p","r","e","s","e","n","t">>, <<"i","m","p","e","r","f","e","c","t">>, <<"p","r","e","t","e","r","i","t","e">>, <<"f","u","t","u","r","e">>,
       <<"c","o","n","d","i","t","i","o","n","a","l">>, <<"p","e","r","f","e","c","t">>, <<"p","l","u","p","e","r","f","e","c","t">>, <<"p","a","s","t"," ","p","e","r","f","e","c","t">>, <<"f","u","t","u","r","e"," ","p","e","r","f","e","c","t">>,
       <<"c","o","n","d","i","t","i","o","n","a","l"," ","p","e","r","f","e","c","t">> >>

numbers == << <<"s","i","n","g","u","l","a","r">>, <<"p","l","u","r","a","l">> >>

persons == << <<"f","i","r","s","t","-","p","e","r","s","o","n">>, <<"s","e","c","o","n","d","-","p","e","r","s","o","n">>, <<"t","h","i","r","d","-","p","e","r","s","o","n">> >>

\* f.tags.some(tag => invalidTags.includes(tag))
hasInvalidTag(f) == \E i \in 1..Len(f.tags) : arrayIncludes(invalidTags, f.tags[i])

\* for (const t of vocabulary) if (f.word.includes(t.toLowerCase())) return
wordNames(f, vocabulary) ==
    \E i \in 1..Len(vocabulary) : includes(f.word, toLowerCase(vocabulary[i]))

\* skipForm without the return for a form that has no tags
skipFormKeepingUntagged(f) ==
    \/ hasInvalidTag(f)
    \/ wordNames(f, tenses)
    \/ wordNames(f, numbers)
    \/ wordNames(f, persons)

\* the early returns of forms.forEach in the complex branch
skipForm(f) ==
    \/ Len(f.tags) = 0
    \/ hasInvalidTag(f)
    \/ wordNames(f, tenses)
    \/ wordNames(f, numbers)
    \/ wordNames(f, persons)

\* findTag taking the first tag of the form that the vocabulary holds
findTagInTagOrder(vocabulary, f, otherwise) ==
    LET i == findIncluded(f.tags, vocabulary)
    IN  IF i # 0 /\ Len(f.tags[i]) > 0 THEN f.tags[i] ELSE otherwise

\* vocabulary.find(v => f.tags.includes(v)) || otherwise
findTag(vocabulary, f, otherwise) ==
    LET i == findIncluded(vocabulary, f.tags)
    IN  IF i # 0 /\ Len(vocabulary[i]) > 0 THEN vocabulary[i] ELSE otherwise

moodOf(f) ==
    findTag(moods, f,
            IF findIncluded(nonfiniteMoods, f.tags) # 0
            THEN <<"n","o","n","-","f","i","n","i","t","e">> ELSE <<"i","n","d","i","c","a","t","i","v","e">>)
tenseOf(f) == findTag(tenses, f, <<>>)
numberOf(f) == findTag(numbers, f, <<>>)
personOf(f) == findTag(persons, f, <<>>)

\* grouped[mood][tense][number][person].push(f), each level created on first use
pushForm(grouped, f) ==
    LET mood == moodOf(f)
        tense == tenseOf(f)
        number == numberOf(f)
        person == personOf(f)
        tensesObj == IF objHas(grouped, mood) THEN objGet(grouped, mood) ELSE <<>>
        numbersObj == IF objHas(tensesObj, tense) THEN objGet(tensesObj, tense) ELSE <<>>
        personsObj == IF objHas(numbersObj, number) THEN objGet(numbersObj, number) ELSE <<>>
        formsArr == IF objHas(personsObj, person) THEN objGet(personsObj, person) ELSE <<>>
    IN  objSet(grouped, mood,
            objSet(tensesObj, tense,
                objSet(numbersObj, number,
                    objSet(personsObj, person, Append(formsArr, f)))))

RECURSIVE groupFormsFrom(_, _, _)
groupFormsFrom(grouped, fs, i) ==
    IF i > Len(fs) THEN grouped
    ELSE groupFormsFrom(IF skipForm(fs[i]) THEN grouped ELSE pushForm(grouped, fs[i]),
                        fs, i + 1)

groupForms(fs) == groupFormsFrom(<<>>, fs, 1)

\* the forms of one tense bucket in the order the nested forEach visits them,
\* each with the number and person keys it is filed under
bucketForms(numbersObj) ==
    concatAll([n \in 1..Len(numbersObj) |->
        concatAll([p \in 1..Len(numbersObj[n].value) |->
            [k \in 1..Len(numbersObj[n].value[p].value) |->
                [number |-> numbersObj[n].key,
                 person |-> numbersObj[n].value[p].key,
                 form |-> numbersObj[n].value[p].value[k]]]])])

nonFiniteRow(b) == <<"|"," ">> \o join(b.form.tags, <<","," ">>) \o <<" ","|"," ">> \o b.form.word \o <<" ","|","\n">>

finiteRow(b) == <<"|"," ">> \o b.person \o <<" ">> \o b.number \o <<" ","|"," ">> \o b.form.word \o <<" ","|","\n">>

\* the row of every form of a tense bucket, in the order the forms are visited
nonFiniteRows(numbersObj) ==
    LET bucket == bucketForms(numbersObj)
    IN  [k \in 1..Len(bucket) |-> nonFiniteRow(bucket[k])]

finiteRows(numbersObj) ==
    LET bucket == bucketForms(numbersObj)
    IN  [k \in 1..Len(bucket) |-> finiteRow(bucket[k])]

\* if (!rows.includes(row)) { md += row; rows.push(row) } for the row of every
\* form from the i-th on; acc is [md, rows]
RECURSIVE emitRows(_, _, _)
emitRows(acc, bucketRows, i) ==
    IF i > Len(bucketRows) THEN acc
    ELSE LET row == bucketRows[i]
         IN  emitRows(IF ~arrayIncludes(acc.rows, row)
                      THEN [md |-> acc.md \o row, rows |-> Append(acc.rows, row)]
                      ELSE acc,
                      bucketRows, i + 1)

\* resetRows with the rows seen so far kept for the next bucket
keepRows(acc) == acc

\* rows.length = 0
resetRows(acc) == [md |-> acc.md, rows |-> <<>>]

\* `${tense || mood === 'imperative' ? "present" : ""}`: the condition is
\* (tense || mood === 'imperative')
tenseLabel(tense, mood) ==
    IF Len(tense) > 0 \/ mood = <<"i","m","p","e","r","a","t","i","v","e">> THEN <<"p","r","e","s","e","n","t">> ELSE <<>>

\* renderTense without the return that skips a tense of the non-finite mood
renderTenseKeepingNonFiniteTenses(acc, mood, tense, numbersObj) ==
    IF mood = <<"n","o","n","-","f","i","n","i","t","e">>
    THEN resetRows(emitRows(acc, nonFiniteRows(numbersObj), 1))
    ELSE IF Len(tense) = 0 /\ mood # <<"i","m","p","e","r","a","t","i","v","e">> THEN acc
         ELSE resetRows(emitRows(
                  [md |-> acc.md \o <<"#","#","#","#","#"," ","T","e","n","s","e",":"," ">> \o tenseLabel(tense, mood) \o <<"\n">>
                               \o <<"|"," ","P","e","r","s","o","n"," ","&"," ","N","u","m","b","e","r"," ","|"," ","F","o","r","m"," ","|","\n","|","-","-","-","|","-","-","-","|","\n">>,
                   rows |-> acc.rows],
                  finiteRows(numbersObj), 1))

\* renderTense without the return that skips the empty tense of a finite mood
renderTenseKeepingEmpty(acc, mood, tense, numbersObj) ==
    IF mood = <<"n","o","n","-","f","i","n","i","t","e">>
    THEN IF Len(tense) > 0 /\ mood # <<"i","m","p","e","r","a","t","i","v","e">> THEN acc
         ELSE resetRows(emitRows(acc, nonFiniteRows(numbersObj), 1))
    ELSE resetRows(emitRows(
             [md |-> acc.md \o <<"#","#","#","#","#"," ","T","e","n","s","e",":"," ">> \o tenseLabel(tense, mood) \o <<"\n">>
                          \o <<"|"," ","P","e","r","s","o","n"," ","&"," ","N","u","m","b","e","r"," ","|"," ","F","o","r","m"," ","|","\n","|","-","-","-","|","-","-","-","|","\n">>,
              rows |-> acc.rows],
             finiteRows(numbersObj), 1))

\* one pass of Object.entries(tensesObj).forEach
renderTense(acc, mood, tense, numbersObj) ==
    IF mood = <<"n","o","n","-","f","i","n","i","t","e">>
    THEN IF Len(tense) > 0 /\ mood # <<"i","m","p","e","r","a","t","i","v","e">> THEN acc
         ELSE resetRows(emitRows(acc, nonFiniteRows(numbersObj), 1))
    ELSE IF Len(tense) = 0 /\ mood # <<"i","m","p","e","r","a","t","i","v","e">> THEN acc
         ELSE resetRows(emitRows(
                  [md |-> acc.md \o <<"#","#","#","#","#"," ","T","e","n","s","e",":"," ">> \o tenseLabel(tense, mood) \o <<"\n">>
                               \o <<"|"," ","P","e","r","s","o","n"," ","&"," ","N","u","m","b","e","r"," ","|"," ","F","o","r","m"," ","|","\n","|","-","-","-","|","-","-","-","|","\n">>,
                   rows |-> acc.rows],
                  finiteRows(numbersObj), 1))

RECURSIVE renderTensesFrom(_, _, _, _)
renderTensesFrom(acc, mood, tensesObj, i) ==
    IF i > Len(tensesObj) THEN acc
    ELSE renderTensesFrom(renderTense(acc, mood, tensesObj[i].key, tensesObj[i].value),
                          mood, tensesObj, i + 1)

\* one pass of Object.entries(grouped).forEach
renderMood(acc, mood, tensesObj) ==
    LET nonFinite == mood = <<"n","o","n","-","f","i","n","i","t","e">>
        heading == <<"#","#","#","#"," ">> \o (IF nonFinite THEN <<"N","o","n","-","f","i","n","i","t","e"," ","f","o","r","m","s">> ELSE <<"M","o","o","d",":"," ">> \o mood)
                   \o <<"\n">>
                   \o (IF nonFinite THEN <<"|"," ","N","a","m","e"," ","|"," ","F","o","r","m"," ","|","\n","|","-","-","-","|","-","-","-","|","\n">> ELSE <<>>)
        done == renderTensesFrom([md |-> acc.md \o heading, rows |-> acc.rows],
                                 mood, tensesObj, 1)
    IN  [md |-> done.md \o <<"\n">>, rows |-> done.rows]

RECURSIVE renderMoodsFrom(_, _, _)
renderMoodsFrom(acc, grouped, i) ==
    IF i > Len(grouped) THEN acc
    ELSE renderMoodsFrom(renderMood(acc, grouped[i].key, grouped[i].value), grouped, i + 1)

\* the else branch: one bullet per form without an invalid tag
formBullet(f) ==
    IF ~hasInvalidTag(f)
    THEN <<"-"," ">> \o f.word \o <<" ","(">> \o join(f.tags, <<","," ">>) \o <<")","\n">>
    ELSE <<>>

\* complexConjugationsLanguages.includes(this.language)
isComplexLanguage == arrayIncludes(complexConjugationsLanguages, language)

renderForms(fs) ==
    IF isEmptyArray(fs) THEN <<>>
    ELSE IF isComplexLanguage
         THEN renderMoodsFrom([md |-> <<"#","#","#"," ","F","o","r","m","s","\n">>, rows |-> <<>>], groupForms(fs), 1).md
              \o <<"\n","\n">>
         ELSE <<"#","#","#"," ","F","o","r","m","s","\n">> \o concatAll([i \in 1..Len(fs) |-> formBullet(fs[i])]) \o <<"\n","\n">>

----------------------------------------------------------------------------
(* Dictionary.renderSenses                                                 *)

\* s.quotes.forEach((q, i) => ...): one line per quote, numbered from 1
quoteLines(quotes, prefix) ==
    IF Len(quotes) = 0 THEN <<>>
    ELSE concatAll([k \in 1..Len(quotes) |->
             prefix \o <<" "," "," "," ","-"," ","*","*","Q","u","o","t","e"," ">> \o numToString((k - 1) + 1) \o <<":","*","*"," ">>
             \o quotes[k].text \o <<" ","-"," ","_">> \o quotes[k].reference \o <<"_","\n">>])

\* itemNumber printing the 0-based index itself
itemNumberFromZero(idx) == idx

\* the number printed before the definition of the item at 0-based index idx
itemNumber(idx) == idx + 1

\* the indent the top-level loop passes for the subsenses of a top-level sense
firstSubsenseIndent == 2

\* nextIndent passing the indent on unchanged
sameIndent(indent) == indent

\* the indent a recursive call passes for the subsenses of a subsense
nextIndent(indent) == indent + 1

RECURSIVE renderSubsenses(_, _)
renderSubsenses(subsenses, indent) ==
    IF Len(subsenses) = 0 THEN <<>>
    ELSE concatAll([n \in 1..Len(subsenses) |->
        LET idx == n - 1
            s == subsenses[n]
            prefix == repeat(<<" "," "," "," ">>, indent)
        IN  prefix \o numToString(itemNumber(idx)) \o <<"."," ">> \o s.definition \o <<"\n">>
            \o (IF Len(s.synonyms) > 0
                THEN prefix \o <<" "," "," "," ","-"," ","*","*","S","y","n","o","n","y","m","s",":","*","*"," ">> \o join(s.synonyms, <<","," ">>) \o <<"\n">>
                ELSE <<>>)
            \o (IF Len(s.antonyms) > 0
                THEN prefix \o <<" "," "," "," ","-"," ","*","*","A","n","t","o","n","y","m","s",":","*","*"," ">> \o join(s.antonyms, <<","," ">>) \o <<"\n">>
                ELSE <<>>)
            \o (IF Len(s.examples) > 0
                THEN prefix \o <<" "," "," "," ","-"," ","*","*","E","x","a","m","p","l","e","s",":","*","*"," ">> \o join(s.examples, <<";"," ">>) \o <<"\n">>
                ELSE <<>>)
            \o quoteLines(s.quotes, prefix)
            \o (IF Len(s.subsenses) > 0
                THEN renderSubsenses(s.subsenses, nextIndent(indent))
                ELSE <<>>)
            \o (IF idx + 1 = Len(subsenses) THEN <<"\n">> ELSE <<>>)])

\* renderSenses writing the fields of a top-level sense in the order
\* renderSubsenses writes them
renderSensesInSubsenseOrder(ss) ==
    IF isEmptyArray(ss) THEN <<>>
    ELSE <<"#","#","#"," ","S","e","n","s","e","s","\n">> \o concatAll([n \in 1..Len(ss) |->
        LET j == n - 1
            t == ss[n]
        IN  numToString(itemNumber(j)) \o <<"."," ">> \o t.definition \o <<"\n">>
            \o (IF Len(t.synonyms) > 0
                THEN <<" "," "," "," ","-"," ","*","*","S","y","n","o","n","y","m","s",":","*","*"," ">> \o join(t.synonyms, <<","," ">>) \o <<"\n">>
                ELSE <<>>)
            \o (IF Len(t.antonyms) > 0
                THEN <<" "," "," "," ","-"," ","*","*","A","n","t","o","n","y","m","s",":","*","*"," ">> \o join(t.antonyms, <<","," ">>) \o <<"\n">>
                ELSE <<>>)
            \o (IF Len(t.examples) > 0
                THEN <<" "," "," "," ","-"," ","*","*","E","x","a","m","p","l","e","s",":","*","*"," ">> \o join(t.examples, <<";"," ">>) \o <<"\n">>
                ELSE <<>>)
            \o quoteLines(t.quotes, <<>>)
            \o (IF Len(t.subsenses) > 0
                THEN renderSubsenses(t.subsenses, firstSubsenseIndent)
                ELSE <<>>)
            \o (IF j + 1 = Len(ss) THEN <<"\n","\n">> ELSE <<>>)])

renderSenses(ss) ==
    IF isEmptyArray(ss) THEN <<>>
    ELSE <<"#","#","#"," ","S","e","n","s","e","s","\n">> \o concatAll([n \in 1..Len(ss) |->
        LET j == n - 1
            t == ss[n]
        IN  numToString(itemNumber(j)) \o <<"."," ">> \o t.definition \o <<"\n">>
            \o (IF Len(t.examples) > 0
                THEN <<" "," "," "," ","-"," ","*","*","E","x","a","m","p","l","e","s",":","*","*"," ">> \o join(t.examples, <<";"," ">>) \o <<"\n">>
                ELSE <<>>)
            \o quoteLines(t.quotes, <<>>)
            \o (IF Len(t.synonyms) > 0
                THEN <<" "," "," "," ","-"," ","*","*","S","y","n","o","n","y","m","s",":","*","*"," ">> \o join(t.synonyms, <<","," ">>) \o <<"\n">>
                ELSE <<>>)
            \o (IF Len(t.antonyms) > 0
                THEN <<" "," "," "," ","-"," ","*","*","A","n","t","o","n","y","m","s",":","*","*"," ">> \o join(t.antonyms, <<","," ">>) \o <<"\n">>
                ELSE <<>>)
            \o (IF Len(t.subsenses) > 0
                THEN renderSubsenses(t.subsenses, firstSubsenseIndent)
                ELSE <<>>)
            \o (IF j + 1 = Len(ss) THEN <<"\n","\n">> ELSE <<>>)])

----------------------------------------------------------------------------
(* Dictionary.renderMarkdown                                               *)

\* s.slice(0, 1).toUpperCase() + s.slice(1)
capitalize(s) == toUpperCase(slice(s, 0, 1)) \o sliceFrom(s, 1)

\* entry.source.url.replaceAll(' ', '%20'), the value assigned to this.urlWord
resolveURL(e) == replaceAll(e.source.url, <<" ">>, <<"%","2","0">>)

\* groupEntry with the lists of e assigned to the group instead of pushed onto it
groupEntryOverwriting(groupedEntries, e) ==
    objSet(groupedEntries, e.partOfSpeech,
           [language |-> e.language, partOfSpeech |-> e.partOfSpeech,
            pronunciations |-> e.pronunciations, forms |-> e.forms, senses |-> e.senses])

\* one pass of entry.entries.forEach: the group of e.partOfSpeech is created on
\* first use, then the three lists of e are pushed onto the group's lists
groupEntry(groupedEntries, e) ==
    LET g == IF ~objHas(groupedEntries, e.partOfSpeech)
             THEN objSet(groupedEntries, e.partOfSpeech,
                         [language |-> e.language, partOfSpeech |-> e.partOfSpeech,
                          pronunciations |-> <<>>, forms |-> <<>>, senses |-> <<>>])
             ELSE groupedEntries
        group == objGet(g, e.partOfSpeech)
    IN  objSet(g, e.partOfSpeech,
               [language |-> group.language, partOfSpeech |-> group.partOfSpeech,
                pronunciations |-> group.pronunciations \o e.pronunciations,
                forms |-> group.forms \o e.forms,
                senses |-> group.senses \o e.senses])

RECURSIVE groupEntriesFrom(_, _, _)
groupEntriesFrom(groupedEntries, es, i) ==
    IF i > Len(es) THEN groupedEntries
    ELSE groupEntriesFrom(groupEntry(groupedEntries, es[i]), es, i + 1)

groupEntries(es) == groupEntriesFrom(<<>>, es, 1)

\* renderGroup with the forms written before the senses
renderGroupFormsFirst(e) ==
    <<"#","#"," ">> \o capitalize(e.partOfSpeech) \o <<"\n">>
    \o renderPronunciations(e.pronunciations)
    \o renderForms(e.forms)
    \o renderSenses(e.senses)

\* one pass of Object.values(groupedEntries).forEach
renderGroup(e) ==
    <<"#","#"," ">> \o capitalize(e.partOfSpeech) \o <<"\n">>
    \o renderPronunciations(e.pronunciations)
    \o renderSenses(e.senses)
    \o renderForms(e.forms)

\* the title line
titleLine(e) == <<"#"," ">> \o capitalize(e.word) \o <<"\n">>

\* sourceLine written before this.urlWord is assigned: it shows the URL the
\* instance held before the call
sourceLineBeforeAssignment(e) ==
    <<"S","o","u","r","c","e",":"," ","[">> \o urlWord \o <<"]","(">> \o urlWord \o <<")","\n","\n">>

\* the source line, written after this.urlWord has been assigned
sourceLine(e) ==
    <<"S","o","u","r","c","e",":"," ","[">> \o resolveURL(e) \o <<"]","(">> \o resolveURL(e) \o <<")","\n","\n">>

\* md.replaceAll("..", ".")
collapsePeriods(text) == replaceAll(text, <<".",".">>, <<".">>)

renderMarkdown(e) ==
    LET groupedEntries == groupEntries(e.entries)
        sections == IF Len(groupedEntries) = 0 THEN <<>>
                    ELSE concatAll([i \in 1..Len(groupedEntries) |->
                                       renderGroup(groupedEntries[i].value)])
    IN  collapsePeriods(titleLine(e) \o sourceLine(e) \o sections)

----------------------------------------------------------------------------
(* The inputs.  Part-of-speech tags and dialect tags are never names of    *)
(* Object.prototype properties (constructor, toString, ...): the renderer  *)
(* reads grouped[key] to test whether a key is new.                        *)

MaxEntries == 3
MaxPronunciations == 3
MaxForms == 3
MaxRoutingForms == 2
MaxSenseNodes == 4
MaxFetchedEntries == 1

\* sequences over pool of length 0..n
SeqsUpTo(pool, n) == UNION {[1..k -> pool] : k \in 0..n}

Languages == {<<"e","s">>, <<"e","n">>}

\* every complex-conjugation language and three others
RoutingLanguages ==
    { <<"c","a">>, <<"c","s">>, <<"f","r">>, <<"d","e">>, <<"e","l">>, <<"h","u">>, <<"i","t">>, <<"l","a">>, <<"p","t">>, <<"r","o">>, <<"r","u">>, <<"s","h">>,
      <<"e","s">>, <<"n","l">>, <<"e","n">>, <<"E","S">>, <<"e">> }

Words == {<<"r","u","n">>, <<"a"," ","b">>}

pronunciation(type, text, tags) == [type |-> type, text |-> text, tags |-> tags]

PronunciationPool ==
    { pronunciation(<<"I","P","A">>, <<"f","u",":">>, << <<"U","K">>, <<"U","S">> >>),
      pronunciation(<<"X">>, <<"f","o">>, << <<"U","S">> >>),
      pronunciation(<<"I","P","A">>, <<"f","a">>, <<>>),
      pronunciation(<<"X">>, <<"f","i">>, << <<"U","K">> >>) }

PronunciationSeqs == SeqsUpTo(PronunciationPool, MaxPronunciations)

form(w, tags) == [word |-> w, tags |-> tags]

\* forms for the grouping and the tables of the complex branch
GroupingFormPool ==
    { form(<<"a","m","o">>, << <<"f","i","r","s","t","-","p","e","r","s","o","n">>, <<"s","i","n","g","u","l","a","r">>, <<"p","r","e","s","e","n","t">>, <<"i","n","d","i","c","a","t","i","v","e">> >>),
      form(<<"a","m","o">>, << <<"i","n","d","i","c","a","t","i","v","e">>, <<"p","r","e","t","e","r","i","t","e">>, <<"f","i","r","s","t","-","p","e","r","s","o","n">>, <<"s","i","n","g","u","l","a","r">> >>),
      form(<<"a","m","a">>, << <<"i","m","p","e","r","a","t","i","v","e">>, <<"s","e","c","o","n","d","-","p","e","r","s","o","n">>, <<"s","i","n","g","u","l","a","r">> >>),
      form(<<"a","m","a","r">>, << <<"i","m","p","e","r","s","o","n","a","l">>, <<"i","n","f","i","n","i","t","i","v","e">> >>),
      form(<<"a","m","a","d","o">>, << <<"p","a","r","t","i","c","i","p","l","e">>, <<"p","e","r","f","e","c","t">> >>),
      form(<<"a","m">>, << <<"m","a","s","c","u","l","i","n","e">> >>),
      form(<<"a","m","a","s">>, << <<"f","u","t","u","r","e">>, <<"i","n","d","i","c","a","t","i","v","e">>, <<"s","e","c","o","n","d","-","p","e","r","s","o","n">>, <<"s","i","n","g","u","l","a","r">> >>) }

\* forms for the filter of the complex branch
FilterFormPool ==
    { form(<<"a","m","o">>, << <<"f","i","r","s","t","-","p","e","r","s","o","n">>, <<"s","i","n","g","u","l","a","r">>, <<"p","r","e","s","e","n","t">>, <<"i","n","d","i","c","a","t","i","v","e">> >>),
      form(<<"a","m","i">>, <<>>),
      form(<<"a","n">>, << <<"p","r","e","s","e","n","t">>, <<"c","l","a","s","s">> >>),
      form(<<"n","o"," ","p","l","u","r","a","l">>, << <<"p","r","e","s","e","n","t">>, <<"p","l","u","r","a","l">> >>),
      form(<<"P","l","u","r","a","l">>, << <<"f","u","t","u","r","e">>, <<"p","r","e","s","e","n","t">>, <<"p","l","u","r","a","l">> >>) }

FormSeqs == SeqsUpTo(GroupingFormPool, MaxForms) \cup SeqsUpTo(FilterFormPool, MaxForms)

RoutingFormPool ==
    { form(<<"a","m","o">>, << <<"i","n","d","i","c","a","t","i","v","e">>, <<"p","r","e","s","e","n","t">> >>),
      form(<<"a","n">>, << <<"t","a","b","l","e","-","t","a","g","s">> >>),
      form(<<"a","m","i">>, <<>>) }

RoutingFormSeqs == SeqsUpTo(RoutingFormPool, MaxRoutingForms)

sense(definition, examples, quotes, synonyms, antonyms, subsenses) ==
    [definition |-> definition, tags |-> <<>>, examples |-> examples, quotes |-> quotes,
     synonyms |-> synonyms, antonyms |-> antonyms, translations |-> <<>>,
     subsenses |-> subsenses]

\* a sense without its subsenses: a bare definition, or every field filled
plainSense(subsenses) == sense(<<"a">>, <<>>, <<>>, <<>>, <<>>, subsenses)
fullSense(subsenses) ==
    sense(<<"b">>, << <<"e">>, <<"f">> >>,
          << [text |-> <<"q">>, reference |-> <<"r">>], [text |-> <<"u">>, reference |-> <<"v">>] >>,
          << <<"s">>, <<"t">> >>, << <<"w">> >>, subsenses)

\* the forests (lists of sense trees) of exactly n senses
RECURSIVE SenseForests(_)
SenseForests(n) ==
    IF n = 0 THEN {<<>>}
    ELSE UNION {
           { <<t>> \o rest :
               t \in {plainSense(f) : f \in SenseForests(k - 1)}
                     \cup {fullSense(f) : f \in SenseForests(k - 1)},
               rest \in SenseForests(n - k) } : k \in 1..n }

SenseLists == UNION {SenseForests(n) : n \in 0..MaxSenseNodes}

languageEntry(code, partOfSpeech, ps, fs, ss) ==
    [language |-> [code |-> code, name |-> code], partOfSpeech |-> partOfSpeech,
     pronunciations |-> ps, forms |-> fs, senses |-> ss]

EntryPool ==
    { languageEntry(<<"e","s">>, <<"n","o","u","n">>,
          << pronunciation(<<"I","P","A">>, <<"f","u",":">>, << <<"U","K">>, <<"U","S">> >>) >>,
          << form(<<"a","m","o">>, << <<"i","n","d","i","c","a","t","i","v","e">>, <<"p","r","e","s","e","n","t">> >>) >>,
          << sense(<<"a",".",".">>, <<>>, <<>>, <<>>, <<>>, <<>>) >>),
      languageEntry(<<"e","s">>, <<"v","e","r","b">>,
          << >>,
          << form(<<"a","m","a","r">>, << <<"i","n","f","i","n","i","t","i","v","e">> >>) >>,
          << sense(<<"b",".",".",".">>, << <<"e">> >>, <<>>, <<>>, <<>>, <<>>) >>),
      languageEntry(<<"e","s">>, <<"n","o","u","n">>,
          << pronunciation(<<"X">>, <<"f","o">>, <<>>) >>,
          << form(<<"a","m","a">>, << <<"i","m","p","e","r","a","t","i","v","e">> >>), form(<<"a","n">>, << <<"c","l","a","s","s">> >>) >>,
          << sense(<<"c">>, <<>>, <<>>, << <<"s">> >>, <<>>, <<>>),
             sense(<<"d",".">>, <<>>, <<>>, <<>>, <<>>, <<>>) >>) }

Records ==
    { [word |-> <<"r","u","n">>, entries |-> es,
       source |-> [url |-> <<"h","t","t","p","s",":","/","/","e",".","x","/","a"," ","b">>, license |-> [name |-> <<"X">>, url |-> <<"y">>]]] :
      es \in SeqsUpTo(EntryPool, MaxEntries) }

\* the records of the headword "..." of at most MaxFetchedEntries entries
PunctuationRecords ==
    { [word |-> <<".",".",".">>, entries |-> es,
       source |-> [url |-> <<"h","t","t","p","s",":","/","/","e",".","x","/",".",".",".">>, license |-> [name |-> <<"X">>, url |-> <<"y">>]]] :
      es \in SeqsUpTo(EntryPool, MaxFetchedEntries) }

\* the records of at most MaxFetchedEntries entries
FetchedRecords ==
    {r \in Records : Len(r.entries) <= MaxFetchedEntries} \cup PunctuationRecords

----------------------------------------------------------------------------
(* The state machine.                                                      *)

\* what the history keeps of one renderMarkdown call
snapshot(mdAfter, languageAfter, wordAfter, urlAfter) ==
    [entry |-> entry, md |-> mdAfter,
     language |-> language, word |-> word, urlWord |-> urlWord,
     languageAfter |-> languageAfter, wordAfter |-> wordAfter, urlWordAfter |-> urlAfter]

lastTwo(s) == IF Len(s) <= 2 THEN s ELSE SubSeq(s, Len(s) - 1, Len(s))

\* new Dictionary(language, word)
Construct(l, w) ==
    /\ language' = l
    /\ word' = w
    /\ urlWord' = <<>>
    /\ res' = NoResponse
    /\ md' = NotRun
    /\ UNCHANGED <<entry, pronunciations, forms, senses, calls, storage, pending,
                   markdown>>

\* the outcomes of fetch(url) and res.json(): a response that is ok with a body
\* that parses, a response that is not ok, a fetch that rejects, and an ok
\* response whose body does not parse
Responses == {"ok", "notFound", "networkError", "unparsable"}

\* await fetch(...) resolves to a Response
fetchResolves(r) == r # "networkError"

\* res.ok taken as true whatever the response
responseAlwaysOk(r) == TRUE

\* res.ok
responseOk(r) == r \in {"ok", "unparsable"}

\* await res.json() resolves to the parsed body
bodyParses(r) == r # "unparsable"

\* `**No definitions found for ${this.word}**`
notFoundMessage == <<"*","*","N","o"," ","d","e","f","i","n","i","t","i","o","n","s"," ","f","o","u","n","d"," ","f","o","r"," ">> \o word \o <<"*","*">>

\* this.renderMarkdown(entry), as fetchEntry calls it on an ok response
RenderMarkdown ==
    /\ entry \in Records \cup FetchedRecords
    /\ urlWord' = resolveURL(entry)
    /\ md' = renderMarkdown(entry)
    /\ UNCHANGED <<language, word>>
    /\ calls' = lastTwo(Append(calls, snapshot(md', language', word', urlWord')))
    /\ UNCHANGED <<entry, pronunciations, forms, senses>>

\* d.fetchEntry() run to completion, the upstream fetch ending as r: the
\* promise rejects when fetch or res.json() rejects, the record is rendered
\* when the response is ok, and the fixed message is returned otherwise
FetchEntry(r) ==
    /\ res' = r
    /\ UNCHANGED <<storage, pending, markdown>>
    /\ responseOk(r) /\ bodyParses(r) => entry \in Records \cup FetchedRecords
    /\ IF ~fetchResolves(r)
       THEN /\ md' = Rejected
            /\ UNCHANGED <<language, word, urlWord, entry, pronunciations, forms, senses,
                           calls>>
       ELSE IF responseOk(r)
       THEN IF bodyParses(r)
            THEN RenderMarkdown
            ELSE /\ md' = Rejected
                 /\ UNCHANGED <<language, word, urlWord, entry, pronunciations, forms,
                                senses, calls>>
       ELSE /\ md' = notFoundMessage
            /\ UNCHANGED <<language, word, urlWord, entry, pronunciations, forms, senses,
                           calls>>

\* this.renderPronunciations(pronunciations)
RenderPronunciations ==
    /\ md = NotRun
    /\ md' = renderPronunciations(pronunciations)
    /\ UNCHANGED <<language, word, urlWord, entry, pronunciations, forms, senses, calls,
                   res, storage, pending, markdown>>

\* this.renderForms(forms)
RenderForms ==
    /\ md = NotRun
    /\ md' = renderForms(forms)
    /\ UNCHANGED <<language, word, urlWord, entry, pronunciations, forms, senses, calls,
                   res, storage, pending, markdown>>

\* this.renderSenses(senses)
RenderSenses ==
    /\ md = NotRun
    /\ md' = renderSenses(senses)
    /\ UNCHANGED <<language, word, urlWord, entry, pronunciations, forms, senses, calls,
                   res, storage, pending, markdown>>

NoArguments ==
    /\ pronunciations = <<>>
    /\ forms = <<>>
    /\ senses = <<>>

\* a constructed instance and the record its lookup answers with
Init ==
    /\ language \in Languages
    /\ word \in Words
    /\ urlWord = <<>>
    /\ entry \in Records
    /\ NoArguments
    /\ md = NotRun
    /\ calls = <<>>
    /\ res = NoResponse
    /\ storage = <<>>
    /\ pending = <<>>
    /\ markdown = Loading

Next ==
    \/ \E l \in Languages, w \in Words : Construct(l, w)
    \/ FetchEntry("ok")

\* instances whose lookups succeed
Spec == Init /\ [][Next]_vars

\* a constructed instance and the short record its lookup would answer with
InitFetchEntry ==
    /\ language \in Languages
    /\ word \in Words
    /\ urlWord = <<>>
    /\ entry \in FetchedRecords
    /\ NoArguments
    /\ md = NotRun
    /\ calls = <<>>
    /\ res = NoResponse
    /\ storage = <<>>
    /\ pending = <<>>
    /\ markdown = Loading

NextFetchEntry ==
    \/ \E l \in Languages, w \in Words : Construct(l, w)
    \/ \E r \in Responses : FetchEntry(r)

\* instances whose lookups end in every way
SpecFetchEntry == InitFetchEntry /\ [][NextFetchEntry]_vars

\* renderPronunciations applied to every bounded list of pronunciations
InitPronunciations ==
    /\ language \in Languages
    /\ word \in Words
    /\ urlWord = <<>>
    /\ entry = <<>>
    /\ pronunciations \in PronunciationSeqs
    /\ forms = <<>>
    /\ senses = <<>>
    /\ md = NotRun
    /\ calls = <<>>
    /\ res = NoResponse
    /\ storage = <<>>
    /\ pending = <<>>
    /\ markdown = Loading

SpecPronunciations == InitPronunciations /\ [][RenderPronunciations]_vars

\* renderForms applied to every bounded list of forms: the long lists on an
\* instance of a complex-conjugation language, short lists on every language
InitForms ==
    /\ \/ language = <<"e","s">> /\ forms \in FormSeqs
       \/ language \in RoutingLanguages /\ forms \in RoutingFormSeqs
    /\ word = <<"r","u","n">>
    /\ urlWord = <<>>
    /\ entry = <<>>
    /\ pronunciations = <<>>
    /\ senses = <<>>
    /\ md = NotRun
    /\ calls = <<>>
    /\ res = NoResponse
    /\ storage = <<>>
    /\ pending = <<>>
    /\ markdown = Loading

SpecForms == InitForms /\ [][RenderForms]_vars

\* renderSenses applied to every bounded list of sense trees
InitSenses ==
    /\ language = <<"e","n">>
    /\ word = <<"r","u","n">>
    /\ urlWord = <<>>
    /\ entry = <<>>
    /\ pronunciations = <<>>
    /\ forms = <<>>
    /\ senses \in SenseLists
    /\ md = NotRun
    /\ calls = <<>>
    /\ res = NoResponse
    /\ storage = <<>>
    /\ pending = <<>>
    /\ markdown = Loading

SpecSenses == InitSenses /\ [][RenderSenses]_vars

\* every renderer applied once to its bounded inputs
InitRenderers == InitPronunciations \/ InitForms \/ InitSenses \/ InitFetchEntry

NextRenderers ==
    \/ RenderPronunciations
    \/ RenderForms
    \/ RenderSenses
    \/ md = NotRun /\ FetchEntry("ok")

SpecRenderers == InitRenderers /\ [][NextRenderers]_vars

----------------------------------------------------------------------------
(* The search command (search.tsx): it shows its state `markdown`, which   *)
(* starts as "Loading...", and its effect constructs the Dictionary and    *)
(* calls d.fetchEntry().then((md) => setMarkdown(md)).                      *)

\* the callback given to then: it runs when the promise of fetchEntry is
\* fulfilled, with the string it is fulfilled with; no callback is given for a
\* rejected promise
SetMarkdown ==
    /\ res # NoResponse
    /\ md # Rejected
    /\ markdown # md
    /\ markdown' = md
    /\ UNCHANGED <<language, word, urlWord, entry, pronunciations, forms, senses, md,
                   calls, res, storage, pending>>

\* the command mounted, its effect run up to the call of d.fetchEntry()
InitSearch == InitFetchEntry

\* the upstream fetch of the one call ends without a record (it rejects, or the
\* response is not ok, or its body does not parse) or with one, then the
\* callback runs
NextSearch ==
    \/ res = NoResponse /\ \E r \in Responses \ {"ok"} : FetchEntry(r)
    \/ res = NoResponse /\ FetchEntry("ok")
    \/ SetMarkdown

\* the upstream fetch ends in one of the four ways, and a fulfilled promise
\* runs its callback
SpecSearch == InitSearch /\ [][NextSearch]_vars /\ WF_vars(NextSearch)

----------------------------------------------------------------------------
(* Favorite: the list of favorites kept in LocalStorage.  The item is the  *)
(* array itself: JSON.stringify and JSON.parse carry an array of records   *)
(* of strings unchanged, and getEntries reads an absent item as [].        *)

Whitespace == {" ", "\t", "\n"}

\* String.prototype.trim()
trim(s) ==
    LET kept == {i \in 1..Len(s) : s[i] \notin Whitespace}
    IN  IF kept = {} THEN <<>>
        ELSE SubSeq(s, CHOOSE i \in kept : \A j \in kept : i <= j,
                       CHOOSE i \in kept : \A j \in kept : j <= i)

\* String.prototype.replace(pat, rep), pat a string: the first occurrence only
replaceFirst(s, pat, rep) ==
    LET i == indexOf(s, pat)
    IN  IF i < 0 THEN s ELSE slice(s, 0, i) \o rep \o sliceFrom(s, i + Len(pat))

\* Favorite.formatText
formatText(t) == replaceFirst(toLowerCase(trim(t)), <<" "," ">>, <<" ">>)

\* the order localeCompare gives the characters of formatted texts
CollationOrder == <<" ","0","1","2","3","4","5","6","7","8","9","a","b","c","d","e","f","g","h","i","j","k","l","m","n","o","p","q","r","s","t","u","v","w","x","y","z">>

collationRank(c) == CHOOSE i \in 1..Len(CollationOrder) : CollationOrder[i] = c

\* a.localeCompare(b) <= 0, for formatted texts
comesNoLater(a, b) ==
    LET differ == {i \in 1..Min(Len(a), Len(b)) : a[i] # b[i]}
    IN  IF differ = {} THEN Len(a) <= Len(b)
        ELSE LET i == CHOOSE k \in differ : \A j \in differ : k <= j
             IN  collationRank(a[i]) < collationRank(b[i])

\* favorites.sort((a, b) => a.word.localeCompare(b.word)): a stable sort
RECURSIVE sortByWord(_)
sortByWord(favorites) ==
    IF Len(favorites) <= 1 THEN favorites
    ELSE LET last == favorites[Len(favorites)]
             front == sortByWord(SubSeq(favorites, 1, Len(favorites) - 1))
             before == {i \in 1..Len(front) : comesNoLater(front[i].word, last.word)}
             n == IF before = {} THEN 0 ELSE CHOOSE i \in before : \A j \in before : j <= i
         IN  slice(front, 0, n) \o <<last>> \o sliceFrom(front, n)

\* Favorite.getEntries
getEntries(item) == item

\* a call of Favorite suspended at `await this.getEntries()`
suspended(op, l, w, markdownArg, url) ==
    [op |-> op, language |-> l, word |-> w, markdown |-> markdownArg, url |-> url,
     favorites |-> getEntries(storage)]

withoutCall(i) == slice(pending, 0, i - 1) \o sliceFrom(pending, i)

dictionaryVars ==
    <<language, word, urlWord, entry, pronunciations, forms, senses, md, calls, res,
      markdown>>

\* Favorite.addEntry(language, word, markdown, url), up to its await
AddEntry(l, w, markdownArg, url) ==
    /\ pending' = Append(pending, suspended("addEntry", l, w, markdownArg, url))
    /\ UNCHANGED storage
    /\ UNCHANGED dictionaryVars

\* favorites.find(fav => fav.language === language && fav.word === word) ? true : false
exists(favorites, l, w) ==
    \E k \in 1..Len(favorites) : favorites[k].language = l /\ favorites[k].word = w

\* Favorite.addEntry after its await
ResumeAddEntry(i) ==
    /\ pending[i].op = "addEntry"
    /\ LET c == pending[i]
       IN  IF ~exists(c.favorites, c.language, c.word)
           THEN storage' = sortByWord(Append(c.favorites,
                               [language |-> formatText(c.language),
                                word |-> formatText(c.word),
                                markdown |-> c.markdown, url |-> c.url]))
           ELSE storage' = storage
    /\ pending' = withoutCall(i)
    /\ UNCHANGED dictionaryVars

\* Favorite.removeEntry(language, word), up to its await
RemoveEntry(l, w) ==
    /\ pending' = Append(pending, suspended("removeEntry", l, w, <<>>, <<>>))
    /\ UNCHANGED storage
    /\ UNCHANGED dictionaryVars

\* Favorite.removeEntry after its await
ResumeRemoveEntry(i) ==
    /\ pending[i].op = "removeEntry"
    /\ LET c == pending[i]
       IN  storage' = SelectSeq(c.favorites,
                          LAMBDA fav : fav.language # c.language \/ fav.word # c.word)
    /\ pending' = withoutCall(i)
    /\ UNCHANGED dictionaryVars

MaxFavorites == 3

FavoriteLanguages == {<<"e","n">>, <<"E","N">>, <<"e","s">>}
FavoriteWords == {<<"r","u","n">>, <<"R","u","n">>, <<" ","a","b">>}

InitFavorites ==
    /\ language = <<"e","n">>
    /\ word = <<"r","u","n">>
    /\ urlWord = <<>>
    /\ entry = <<>>
    /\ NoArguments
    /\ md = NotRun
    /\ calls = <<>>
    /\ res = NoResponse
    /\ storage = <<>>
    /\ pending = <<>>
    /\ markdown = Loading

\* the calls of Favorite, each run to completion before the next starts
NextFavorites ==
    \/ /\ pending = <<>>
       /\ Len(storage) < MaxFavorites
       /\ \E l \in FavoriteLanguages, w \in FavoriteWords : AddEntry(l, w, <<"m">>, <<"u">>)
    \/ /\ pending = <<>>
       /\ \E l \in FavoriteLanguages, w \in FavoriteWords : RemoveEntry(l, w)
    \/ \E i \in 1..Len(pending) : ResumeAddEntry(i)
    \/ \E i \in 1..Len(pending) : ResumeRemoveEntry(i)

SpecFavorites == InitFavorites /\ [][NextFavorites]_vars

\* the calls a command leaves suspended at one time
MaxPending == 2

\* the calls of Favorite as the commands make them, `Favorite.addEntry(...)`
\* and `Favorite.removeEntry(...)` without await: a call starts while another
\* is suspended, and the suspended calls resume in any order
NextFavoritesUnawaited ==
    \/ /\ Len(pending) < MaxPending
       /\ Len(storage) < MaxFavorites
       /\ \E l \in FavoriteLanguages, w \in FavoriteWords : AddEntry(l, w, <<"m">>, <<"u">>)
    \/ /\ Len(pending) < MaxPending
       /\ \E l \in FavoriteLanguages, w \in FavoriteWords : RemoveEntry(l, w)
    \/ \E i \in 1..Len(pending) : ResumeAddEntry(i)
    \/ \E i \in 1..Len(pending) : ResumeRemoveEntry(i)

SpecFavoritesUnawaited == InitFavorites /\ [][NextFavoritesUnawaited]_vars

----------------------------------------------------------------------------
(* Reading a rendered text back.                                           *)

\* the pieces of text between the occurrences of a non-empty separator
RECURSIVE split(_, _)
split(text, sep) ==
    LET i == indexOf(text, sep)
    IN  IF i < 0 THEN <<text>>
        ELSE <<slice(text, 0, i)>> \o split(sliceFrom(text, i + Len(sep)), sep)

\* the lines of a text, each without its line feed
linesOf(text) == IF Len(text) = 0 THEN <<>> ELSE split(text, <<"\n">>)

startsWith(s, prefix) == slice(s, 0, Len(prefix)) = prefix

\* the elements of a sequence as a set
elements(s) == {s[i] : i \in 1..Len(s)}

----------------------------------------------------------------------------
(* Claims.                                                                 *)

\* the entries of es tagged p, in encounter order
taggedEntries(es, p) == SelectSeq(es, LAMBDA e : e.partOfSpeech = p)

\* the lists of every entry tagged p, concatenated in encounter order
mergedPronunciations(es, p) ==
    LET tagged == taggedEntries(es, p)
    IN  concatAll([i \in 1..Len(tagged) |-> tagged[i].pronunciations])

mergedForms(es, p) ==
    LET tagged == taggedEntries(es, p)
    IN  concatAll([i \in 1..Len(tagged) |-> tagged[i].forms])

mergedSenses(es, p) ==
    LET tagged == taggedEntries(es, p)
    IN  concatAll([i \in 1..Len(tagged) |-> tagged[i].senses])

\* C1: after a render, for every part-of-speech tag p of the record the group of
\* p holds as pronunciations, forms and senses the concatenation, in encounter
\* order, of the corresponding lists of every entry tagged p.
C1_GroupsMerge ==
    md # NotRun =>
        \A i \in 1..Len(entry.entries) :
            LET p == entry.entries[i].partOfSpeech
                groupedEntries == groupEntries(entry.entries)
            IN  /\ objHas(groupedEntries, p)
                /\ objGet(groupedEntries, p).pronunciations
                     = mergedPronunciations(entry.entries, p)
                /\ objGet(groupedEntries, p).forms
                     = mergedForms(entry.entries, p)
                /\ objGet(groupedEntries, p).senses
                     = mergedSenses(entry.entries, p)

\* a rendered record [(noun, A), (verb, B), (noun, C)] with A and C holding
\* different senses, pronunciations and forms
C1_Witness ==
    /\ md # NotRun
    /\ Len(entry.entries) = 3
    /\ entry.entries[1].partOfSpeech = <<"n","o","u","n">>
    /\ entry.entries[2].partOfSpeech = <<"v","e","r","b">>
    /\ entry.entries[3].partOfSpeech = <<"n","o","u","n">>
    /\ entry.entries[1].senses # entry.entries[3].senses
    /\ entry.entries[1].pronunciations # entry.entries[3].pronunciations
    /\ entry.entries[1].forms # entry.entries[3].forms
    /\ objGet(groupEntries(entry.entries), <<"n","o","u","n">>).senses
         = entry.entries[1].senses \o entry.entries[3].senses

\* the text after "##### Tense: " of every tense sub-heading of a text, in order
tenseHeadings(text) ==
    LET headings == SelectSeq(linesOf(text), LAMBDA l : startsWith(l, <<"#","#","#","#","#"," ","T","e","n","s","e",":"," ">>))
    IN  [k \in 1..Len(headings) |-> sliceFrom(headings[k], Len(<<"#","#","#","#","#"," ","T","e","n","s","e",":"," ">>))]

\* the tense every emitted bucket of a finite mood is filed under, in the order
\* the buckets are visited, "present" standing for the empty tense of imperative
bucketTenses(grouped) ==
    concatAll([m \in 1..Len(grouped) |->
        IF grouped[m].key = <<"n","o","n","-","f","i","n","i","t","e">> THEN <<>>
        ELSE concatAll([t \in 1..Len(grouped[m].value) |->
                 LET tense == grouped[m].value[t].key
                 IN  IF Len(tense) > 0 THEN <<tense>>
                     ELSE IF grouped[m].key = <<"i","m","p","e","r","a","t","i","v","e">> THEN << <<"p","r","e","s","e","n","t">> >>
                     ELSE <<>>])])

\* C2: in the complex branch the sub-heading of every emitted tense table under
\* a finite mood names that bucket's own tense, and shows "present" only for an
\* imperative bucket whose tense is empty.
C2_TenseHeadingNamesBucket ==
    (md # NotRun /\ isComplexLanguage /\ Len(groupForms(forms)) > 0) =>
        tenseHeadings(md) = bucketTenses(groupForms(forms))

\* C3: the document returned by rendering contains no occurrence of "..".
C3_NoDoubledPeriod ==
    md # NotRun => ~includes(md, <<".",".">>)

\* the forms the complex branch files in some bucket
groupedForms(grouped) ==
    UNION { UNION { { b.form : b \in elements(bucketForms(grouped[m].value[t].value)) } :
                    t \in 1..Len(grouped[m].value) } :
            m \in 1..Len(grouped) }

StructuralMarkers == { <<"i","n","f","l","e","c","t","i","o","n","-","t","e","m","p","l","a","t","e">>, <<"t","a","b","l","e","-","t","a","g","s">>, <<"c","l","a","s","s">> }

\* the names of the tenses, grammatical numbers and grammatical persons
GrammarNames == elements(tenses) \cup elements(numbers) \cup elements(persons)

carriesMarker(f) == elements(f.tags) \cap StructuralMarkers # {}

\* C4 as stated: in the complex branch a form is discarded if and only if it
\* carries a structural marker or its word contains, case-insensitively, the
\* name of a tense, number or person; every other form survives.
C4_DiscardedIffMarkerOrName ==
    (md # NotRun /\ isComplexLanguage) =>
        \A i \in 1..Len(forms) :
            forms[i] \notin groupedForms(groupForms(forms))
              <=> \/ carriesMarker(forms[i])
                  \/ \E name \in GrammarNames :
                       includes(toLowerCase(forms[i].word), toLowerCase(name))

\* C4 amended: in the complex branch a form is discarded if and only if it has
\* no tags, or carries a structural marker, or its word as written contains the
\* (lower-case) name of a tense, number or person; every other form survives.
C4_DiscardedIffUntaggedMarkerOrName ==
    (md # NotRun /\ isComplexLanguage) =>
        \A i \in 1..Len(forms) :
            forms[i] \notin groupedForms(groupForms(forms))
              <=> \/ forms[i].tags = <<>>
                  \/ carriesMarker(forms[i])
                  \/ \E name \in GrammarNames : includes(forms[i].word, name)

\* a rendered list holding a form without tags, a form whose word names a
\* number in lower case (both discarded) and a form whose word names one
\* capitalized (kept)
C4_Witness ==
    /\ md # NotRun
    /\ isComplexLanguage
    /\ Len(forms) = 3
    /\ forms[1].tags = <<>>
    /\ forms[2].word = <<"n","o"," ","p","l","u","r","a","l">>
    /\ forms[3].word = <<"P","l","u","r","a","l">>
    /\ groupedForms(groupForms(forms)) = {forms[3]}

ComplexLanguageCodes ==
    { <<"c","a">>, <<"c","s">>, <<"f","r">>, <<"d","e">>, <<"e","l">>, <<"h","u">>, <<"i","t">>, <<"l","a">>, <<"p","t">>, <<"r","o">>, <<"r","u">>, <<"s","h">>,
      <<"e","s">>, <<"n","l">> }

\* the bullet lines of a text
bulletLines(text) == SelectSeq(linesOf(text), LAMBDA l : startsWith(l, <<"-"," ">>))

\* the flat Forms section: one bullet per form without a structural marker
flatForms(fs) ==
    LET kept == SelectSeq(fs, LAMBDA f : ~carriesMarker(f))
    IN  <<"#","#","#"," ","F","o","r","m","s","\n">>
        \o concatAll([i \in 1..Len(kept) |->
               <<"-"," ">> \o kept[i].word \o <<" ","(">> \o join(kept[i].tags, <<","," ">>) \o <<")">> \o <<"\n">>])
        \o <<"\n","\n">>

\* C5: the forms are rendered through the complex branch exactly when the
\* language code is one of the fourteen complex-conjugation codes (then the
\* section holds headings and table lines, never a bullet); for every other
\* code the section is the flat list, one bullet per form without a structural
\* marker, in input order.
C5_BranchByLanguage ==
    (md # NotRun /\ Len(forms) > 0) =>
        IF language \in ComplexLanguageCodes
        THEN LET ls == linesOf(md)
             IN  /\ \A i \in 1..Len(ls) :
                        \/ ls[i] = <<>>
                        \/ startsWith(ls[i], <<"#">>)
                        \/ startsWith(ls[i], <<"|">>)
                 /\ groupForms(forms) # <<>> =>
                        \E i \in 1..Len(ls) : startsWith(ls[i], <<"#","#","#","#"," ">>)
        ELSE md = flatForms(forms)

\* a list with one plain form and one form carrying a marker, rendered for en
\* as a single bullet
C5_Witness ==
    /\ md # NotRun
    /\ language = <<"e","n">>
    /\ Len(forms) = 2
    /\ ~carriesMarker(forms[1])
    /\ carriesMarker(forms[2])
    /\ Len(bulletLines(md)) = 1

\* the tables of a text, in order: the lines starting with "|" that follow each
\* separator line
tablesOf(text) ==
    LET ls == linesOf(text)
        separators == SelectSeq([i \in 1..Len(ls) |-> i], LAMBDA i : ls[i] = <<"|","-","-","-","|","-","-","-","|">>)
    IN  [k \in 1..Len(separators) |->
            LET first == separators[k] + 1
                after == {j \in first..(Len(ls) + 1) :
                            j = Len(ls) + 1 \/ ~startsWith(ls[j], <<"|">>)}
                stop == CHOOSE j \in after : \A h \in after : j <= h
            IN  IF stop = first THEN <<>> ELSE SubSeq(ls, first, stop - 1)]

\* the row line of a form of a bucket, without its line feed
rowLine(row) == slice(row, 0, Len(row) - 1)

\* the set of row lines every table is expected to show, table by table: for a
\* finite mood one table per emitted tense bucket, for the non-finite mood one
\* table holding the bucket of the empty tense
expectedTables(grouped) ==
    concatAll([m \in 1..Len(grouped) |->
        LET mood == grouped[m].key
            tensesObj == grouped[m].value
        IN  IF mood = <<"n","o","n","-","f","i","n","i","t","e">>
            THEN << UNION { IF Len(tensesObj[t].key) > 0 THEN {}
                            ELSE { rowLine(nonFiniteRow(b)) :
                                     b \in elements(bucketForms(tensesObj[t].value)) } :
                            t \in 1..Len(tensesObj) } >>
            ELSE concatAll([t \in 1..Len(tensesObj) |->
                     IF Len(tensesObj[t].key) = 0 /\ mood # <<"i","m","p","e","r","a","t","i","v","e">> THEN <<>>
                     ELSE << { rowLine(finiteRow(b)) :
                                 b \in elements(bucketForms(tensesObj[t].value)) } >>])])

\* C6: in the complex branch no row text appears twice within the table of one
\* bucket, and every table shows every row of its own bucket, also a row that an
\* earlier table has already shown.
C6_DuplicatesSuppressedPerBucket ==
    (md # NotRun /\ isComplexLanguage /\ Len(groupForms(forms)) > 0) =>
        LET tables == tablesOf(md)
            expected == expectedTables(groupForms(forms))
        IN  /\ Len(tables) = Len(expected)
            /\ \A k \in 1..Len(tables) :
                /\ \A i, j \in 1..Len(tables[k]) : tables[k][i] = tables[k][j] => i = j
                /\ elements(tables[k]) = expected[k]

\* three forms rendering the same row text, two of them in one tense bucket
\* and the third in another: the row is shown once in each of the two tables
C6_Witness ==
    /\ md # NotRun
    /\ isComplexLanguage
    /\ Len(forms) = 3
    /\ tenseOf(forms[1]) = <<"p","r","e","s","e","n","t">>
    /\ forms[2] = forms[1]
    /\ tenseOf(forms[3]) = <<"p","r","e","t","e","r","i","t","e">>
    /\ finiteRow([number |-> numberOf(forms[3]), person |-> personOf(forms[3]), form |-> forms[3]])
         = finiteRow([number |-> numberOf(forms[1]), person |-> personOf(forms[1]), form |-> forms[1]])
    /\ Len(tablesOf(md)) = 2
    /\ Len(tablesOf(md)[1]) = 1
    /\ tablesOf(md)[2] = tablesOf(md)[1]

\* the number of spaces a line starts with
indentOf(line) ==
    LET other == {i \in 1..Len(line) : line[i] # " "}
    IN  IF other = {} THEN Len(line) ELSE (CHOOSE i \in other : \A j \in other : i <= j) - 1

\* the lines of a sense outline that open an item: "<indent><number>. <definition>"
itemLines(text) ==
    SelectSeq(linesOf(text),
              LAMBDA l : indentOf(l) < Len(l) /\ isDigit(l[indentOf(l) + 1]))

itemIndents(text) ==
    LET items == itemLines(text)
    IN  [k \in 1..Len(items) |-> indentOf(items[k])]

\* the value of a decimal numeral
RECURSIVE numeralValue(_)
numeralValue(n) ==
    IF Len(n) = 0 THEN 0
    ELSE 10 * numeralValue(slice(n, 0, Len(n) - 1)) + digitValue(n[Len(n)])

itemNumbers(text) ==
    LET items == itemLines(text)
    IN  [k \in 1..Len(items) |->
            LET rest == sliceFrom(items[k], indentOf(items[k]))
            IN  numeralValue(slice(rest, 0, indexOf(rest, <<".">>)))]

\* the nesting level of every sense of a list of sense trees, in the order the
\* outline prints them: level for the roots, one more for each step down
RECURSIVE levelsOf(_, _)
levelsOf(ss, level) ==
    IF Len(ss) = 0 THEN <<>>
    ELSE concatAll([i \in 1..Len(ss) |-> <<level>> \o levelsOf(ss[i].subsenses, level + 1)])

\* the position of every sense within its own list, in the order the outline
\* prints them
RECURSIVE positionsOf(_)
positionsOf(ss) ==
    IF Len(ss) = 0 THEN <<>>
    ELSE concatAll([i \in 1..Len(ss) |-> <<i>> \o positionsOf(ss[i].subsenses)])

IndentUnit == 4

\* C7 as stated: every nesting level is indented exactly one 4-space unit more
\* than its parent level, from the top-level senses (not indented) down.
C7_OneUnitPerLevel ==
    md # NotRun =>
        LET levels == levelsOf(senses, 0)
        IN  itemIndents(md) = [k \in 1..Len(levels) |-> IndentUnit * levels[k]]

\* C7 amended: top-level senses are not indented, the subsenses of a top-level
\* sense are indented two 4-space units, and every deeper level is indented
\* exactly one 4-space unit more than its parent level.
C7_TwoUnitsThenOnePerLevel ==
    md # NotRun =>
        LET levels == levelsOf(senses, 0)
        IN  itemIndents(md) =
              [k \in 1..Len(levels) |->
                  IF levels[k] = 0 THEN 0 ELSE IndentUnit * (levels[k] + 1)]

\* a rendered outline three levels deep
C7_Witness ==
    /\ md # NotRun
    /\ \E k \in 1..Len(levelsOf(senses, 0)) : levelsOf(senses, 0)[k] = 2
    /\ \E k \in 1..Len(itemIndents(md)) : itemIndents(md)[k] = 3 * IndentUnit

\* C8: top-level senses are numbered 1..N in input order, and every subsense
\* list at every depth is numbered on its own from 1 in input order.
C8_NumberedPerList ==
    md # NotRun => itemNumbers(md) = positionsOf(senses)

\* a rendered sense with two subsenses, the second with one subsense of its own
C8_Witness ==
    /\ md # NotRun
    /\ Len(senses) = 1
    /\ Len(senses[1].subsenses) = 2
    /\ Len(senses[1].subsenses[1].subsenses) = 0
    /\ Len(senses[1].subsenses[2].subsenses) = 1
    /\ itemNumbers(md) = <<1, 1, 2, 1>>

\* the rows of a pronunciation table: the dialect, the texts and the phonetic
\* system of every line after the header and the separator
pronunciationRows(text) ==
    LET ls == SelectSeq(linesOf(text), LAMBDA l : startsWith(l, <<"|"," ">>))
    IN  [k \in 2..Len(ls) |->
            LET cells == split(slice(ls[k], 2, Len(ls[k]) - 2), <<" ","|"," ">>)
            IN  [dialect |-> cells[1], texts |-> split(cells[2], <<","," ">>), type |-> cells[3]]]

\* text is listed in the row of the dialect
listedUnder(text, dialect, rows) ==
    \E k \in DOMAIN rows : rows[k].dialect = dialect /\ text \in elements(rows[k].texts)

\* C9: the text of a pronunciation with dialect tags is listed in the row of
\* each of its tags, and the text of a pronunciation without tags in the row
\* of "-"; no text is dropped.
C9_ListedUnderEveryTag ==
    (md # NotRun /\ Len(pronunciations) > 0) =>
        LET rows == pronunciationRows(md)
        IN  \A i \in 1..Len(pronunciations) :
                LET p == pronunciations[i]
                IN  IF Len(p.tags) > 0
                    THEN \A t \in 1..Len(p.tags) : listedUnder(p.text, p.tags[t], rows)
                    ELSE listedUnder(p.text, <<"-">>, rows)

\* a rendered list with a pronunciation tagged UK and US, listed in both rows,
\* and an untagged one, listed under "-"
C9_Witness ==
    /\ md # NotRun
    /\ \E i, j \in 1..Len(pronunciations) :
        /\ pronunciations[i].tags = << <<"U","K">>, <<"U","S">> >>
        /\ pronunciations[j].tags = <<>>
        /\ listedUnder(pronunciations[i].text, <<"U","K">>, pronunciationRows(md))
        /\ listedUnder(pronunciations[i].text, <<"U","S">>, pronunciationRows(md))
        /\ listedUnder(pronunciations[j].text, <<"-">>, pronunciationRows(md))

\* C10 as stated: two render calls given identical records return identical
\* documents, whatever the state of the instance, and a render call changes no
\* state of the instance.
C10_PureFunctionOfRecord ==
    /\ \A i, j \in 1..Len(calls) :
          calls[i].entry = calls[j].entry => calls[i].md = calls[j].md
    /\ \A i \in 1..Len(calls) :
          /\ calls[i].languageAfter = calls[i].language
          /\ calls[i].wordAfter = calls[i].word
          /\ calls[i].urlWordAfter = calls[i].urlWord

\* C10 amended: two render calls given identical records on instances of the
\* same language return identical documents, whatever urlWord holds and whatever
\* was rendered before; a render call changes no state of the instance other
\* than urlWord, which it sets to the record's source URL with every space
\* replaced by %20.
C10_FunctionOfRecordAndLanguage ==
    /\ \A i, j \in 1..Len(calls) :
          (calls[i].entry = calls[j].entry /\ calls[i].language = calls[j].language)
              => calls[i].md = calls[j].md
    /\ \A i \in 1..Len(calls) :
          /\ calls[i].languageAfter = calls[i].language
          /\ calls[i].wordAfter = calls[i].word
          /\ calls[i].urlWordAfter =
               replaceAll(calls[i].entry.source.url, <<" ">>, <<"%","2","0">>)

\* two calls with one record on the same language, the first on a fresh
\* instance and the second on one that has rendered before
C10_Witness ==
    /\ Len(calls) = 2
    /\ calls[1].entry = calls[2].entry
    /\ Len(calls[1].entry.entries) > 0
    /\ calls[1].language = calls[2].language
    /\ calls[1].urlWord = <<>>
    /\ calls[2].urlWord # <<>>
    /\ calls[1].md = calls[2].md

\* C11: a fetchEntry call whose lookup answers not found (response not ok)
\* returns the fixed message "**No definitions found for <word>**", does not
\* invoke the renderer (the history of render calls is unchanged) and leaves
\* the resolved source URL as it was.
C11_NotFoundHandling ==
    [][res' = "notFound" =>
          /\ md' = <<"*","*","N","o"," ","d","e","f","i","n","i","t","i","o","n","s"," ","f","o","u","n","d"," ","f","o","r"," ">> \o word \o <<"*","*">>
          /\ calls' = calls
          /\ urlWord' = urlWord]_vars

\* a fresh instance whose lookup answered not found: the message is returned,
\* nothing was rendered and the resolved URL is empty
C11_Witness ==
    /\ res = "notFound"
    /\ md = <<"*","*","N","o"," ","d","e","f","i","n","i","t","i","o","n","s"," ","f","o","u","n","d"," ","f","o","r"," ","a"," ","b","*","*">>
    /\ word = <<"a"," ","b">>
    /\ calls = <<>>
    /\ urlWord = <<>>

\* C12: renderPronunciations of an empty list returns the empty string, and so
\* do renderForms and renderSenses of an empty list; a record whose entries are
\* empty renders to the header only, the title line and the source line.
C12_EmptyInputs ==
    [][/\ (pronunciations = <<>> /\ RenderPronunciations) => md' = <<>>
       /\ (forms = <<>> /\ RenderForms) => md' = <<>>
       /\ (senses = <<>> /\ RenderSenses) => md' = <<>>
       /\ (entry # <<>> /\ entry.entries = <<>> /\ FetchEntry("ok"))
             => LET ls == linesOf(md')
                IN  /\ Len(ls) = 4
                    /\ startsWith(ls[1], <<"#"," ">>)
                    /\ startsWith(ls[2], <<"S","o","u","r","c","e",":"," ","[">>)
                    /\ ls[3] = <<>>
                    /\ ls[4] = <<>>]_vars

\* a record without entries, rendered to its header
C12_Witness ==
    /\ entry \in Records
    /\ entry.entries = <<>>
    /\ res = "ok"
    /\ md = <<"#"," ","R","u","n","\n","S","o","u","r","c","e",":"," ","[","h","t","t","p","s",":","/","/","e",".","x","/","a","%","2","0","b","]","(","h","t","t","p","s",":","/","/","e",".","x","/","a","%","2","0","b",")","\n","\n">>

\* the part-of-speech tags of es, each once, in the order they are first met
firstTags(es) ==
    LET first == {i \in 1..Len(es) :
                     \A j \in 1..(i - 1) : es[j].partOfSpeech # es[i].partOfSpeech}
        nth(k) == CHOOSE i \in first : Cardinality({j \in first : j < i}) = k - 1
    IN  [k \in 1..Cardinality(first) |-> es[nth(k)].partOfSpeech]

\* the indices, in ascending order, of the lines of ls that start with prefix
linesStarting(ls, prefix) ==
    LET at == {i \in 1..Len(ls) : startsWith(ls[i], prefix)}
        nth(k) == CHOOSE i \in at : Cardinality({j \in at : j < i}) = k - 1
    IN  [k \in 1..Cardinality(at) |-> nth(k)]

\* the indices of the lines from..to of ls that start with prefix
linesWithin(ls, from, to, prefix) == {i \in from..to : startsWith(ls[i], prefix)}

\* C13: a rendered document starts with the title line and the source line;
\* then comes one section per part-of-speech group, the groups in the order their
\* tag is first met in the record; a section starts with the capitalized
\* heading, followed by the pronunciation table, then the sense outline, then
\* the Forms section, each present exactly when the group has such items.
C13_DocumentOrder ==
    res = "ok" =>
        LET ls == linesOf(md)
            heads == linesStarting(ls, <<"#","#"," ">>)
            tags == firstTags(entry.entries)
        IN  /\ startsWith(ls[1], <<"#"," ">>)
            /\ startsWith(ls[2], <<"S","o","u","r","c","e",":"," ">>)
            /\ Len(heads) = Len(tags)
            /\ \A k \in 1..Len(heads) :
                  LET tag == tags[k]
                      from == heads[k] + 1
                      to == IF k < Len(heads) THEN heads[k + 1] - 1 ELSE Len(ls)
                      table == linesWithin(ls, from, to, <<"|"," ","D","i","a","l","e","c","t"," ","|"," ","P","r","o","n","u","n","c","i","a","t","i","o","n"," ">>)
                      outline == linesWithin(ls, from, to, <<"#","#","#"," ","S","e","n","s","e","s">>)
                      formsAt == linesWithin(ls, from, to, <<"#","#","#"," ","F","o","r","m","s">>)
                  IN  /\ heads[k] > 2
                      /\ ls[heads[k]] = <<"#","#"," ">> \o toUpperCase(slice(tag, 0, 1))
                                              \o sliceFrom(tag, 1)
                      /\ Cardinality(table)
                           = (IF mergedPronunciations(entry.entries, tag) # <<>> THEN 1 ELSE 0)
                      /\ Cardinality(outline)
                           = (IF mergedSenses(entry.entries, tag) # <<>> THEN 1 ELSE 0)
                      /\ Cardinality(formsAt)
                           = (IF mergedForms(entry.entries, tag) # <<>> THEN 1 ELSE 0)
                      /\ table \subseteq {from}
                      /\ \A a \in table, b \in outline : a < b
                      /\ \A b \in outline, c \in formsAt : b < c
                      /\ \A a \in table, c \in formsAt : a < c

\* a rendered record [(noun, A), (verb, B), (noun, C)]: the section Noun comes
\* before the section Verb, and Noun holds a table, an outline and forms
C13_Witness ==
    /\ res = "ok"
    /\ Len(entry.entries) = 3
    /\ entry.entries[1].partOfSpeech = <<"n","o","u","n">>
    /\ entry.entries[2].partOfSpeech = <<"v","e","r","b">>
    /\ entry.entries[3].partOfSpeech = <<"n","o","u","n">>
    /\ LET ls == linesOf(md)
       IN  \E i, j \in 1..Len(ls) :
              /\ i < j
              /\ ls[i] = <<"#","#"," ","N","o","u","n">>
              /\ ls[j] = <<"#","#"," ","V","e","r","b">>
              /\ linesWithin(ls, i, j, <<"|"," ","D","i","a","l","e","c","t"," ","|"," ","P","r","o","n","u","n","c","i","a","t","i","o","n"," ">>) # {}
              /\ linesWithin(ls, i, j, <<"#","#","#"," ","S","e","n","s","e","s">>) # {}
              /\ linesWithin(ls, i, j, <<"#","#","#"," ","F","o","r","m","s">>) # {}

\* C14: a rendered document begins with the title line, "# " and the headword
\* with its first letter capitalized, then the source line, whose link text and
\* link target are both the resolved source URL; the resolved URL getURL
\* returns is source.url with every space replaced by %20, the URL the
\* document links.
C14_HeaderAndSourceURL ==
    res = "ok" =>
        LET ls == linesOf(md)
            resolved == replaceAll(entry.source.url, <<" ">>, <<"%","2","0">>)
        IN  /\ ls[1] = <<"#"," ">> \o toUpperCase(slice(entry.word, 0, 1)) \o sliceFrom(entry.word, 1)
            /\ urlWord = resolved
            /\ ls[2] = <<"S","o","u","r","c","e",":"," ","[">> \o urlWord \o <<"]","(">> \o urlWord \o <<")">>

\* the key of a favorite: its language and word, trimmed and in lower case
favoriteKey(l, w) == <<toLowerCase(trim(l)), toLowerCase(trim(w))>>

\* C15: whenever every call of addEntry and removeEntry has run to completion,
\* the stored list holds at most one entry per key (language, word), the keys
\* compared trimmed and without regard to case; and an addEntry call leaves
\* the list as it is when the list holds an entry with the key of its arguments.
C15_FavoritesUnique ==
    [][/\ pending' = <<>> =>
             \A i, j \in 1..Len(storage') :
                 i # j => favoriteKey(storage'[i].language, storage'[i].word)
                            # favoriteKey(storage'[j].language, storage'[j].word)
       /\ \A i \in 1..Len(pending) :
             (/\ ResumeAddEntry(i)
              /\ \E k \in 1..Len(storage) :
                    favoriteKey(storage[k].language, storage[k].word)
                      = favoriteKey(pending[i].language, pending[i].word))
                 => storage' = storage]_vars

\* every filed form with the keys of its bucket, in the order the buckets are
\* visited
filedForms(grouped) ==
    concatAll([m \in 1..Len(grouped) |->
        concatAll([t \in 1..Len(grouped[m].value) |->
            LET bucket == bucketForms(grouped[m].value[t].value)
            IN  [k \in 1..Len(bucket) |->
                    [mood |-> grouped[m].key, tense |-> grouped[m].value[t].key,
                     number |-> bucket[k].number, person |-> bucket[k].person,
                     form |-> bucket[k].form]]])])

\* a form the filter of the complex branch keeps
survives(f) ==
    /\ f.tags # <<>>
    /\ ~carriesMarker(f)
    /\ \A name \in GrammarNames : ~includes(f.word, name)

\* axis is the first item of vocabulary that is a member of tagSet, or the
\* empty string when no item is
isFirstMember(vocabulary, axis, tagSet) ==
    IF \E i \in 1..Len(vocabulary) : vocabulary[i] \in tagSet
    THEN \E i \in 1..Len(vocabulary) :
            /\ vocabulary[i] = axis
            /\ axis \in tagSet
            /\ \A j \in 1..(i - 1) : vocabulary[j] \notin tagSet
    ELSE axis = <<>>

\* C16: in the complex branch every surviving form is filed in exactly one
\* bucket (mood, tense, number, person); tense, number and person are each the
\* first item of their vocabulary, in the vocabulary's order, that is among the
\* form's tags as a set, or the empty string when none is; mood is the first
\* item of the moods among the tags, or "non-finite" when none is but gerund,
\* participle or infinitive is a tag, or "indicative" otherwise.
C16_ClassifiedByVocabularyPriority ==
    (md # NotRun /\ isComplexLanguage) =>
        LET filed == filedForms(groupForms(forms))
        IN  /\ \A i \in 1..Len(forms) :
                  survives(forms[i]) =>
                      Cardinality({k \in 1..Len(filed) : filed[k].form = forms[i]})
                        = Cardinality({j \in 1..Len(forms) : forms[j] = forms[i]})
            /\ \A k \in 1..Len(filed) :
                  LET b == filed[k]
                      tagSet == elements(b.form.tags)
                  IN  /\ isFirstMember(tenses, b.tense, tagSet)
                      /\ isFirstMember(numbers, b.number, tagSet)
                      /\ isFirstMember(persons, b.person, tagSet)
                      /\ IF elements(moods) \cap tagSet # {}
                         THEN isFirstMember(moods, b.mood, tagSet)
                         ELSE IF { <<"g","e","r","u","n","d">>, <<"p","a","r","t","i","c","i","p","l","e">>, <<"i","n","f","i","n","i","t","i","v","e">> } \cap tagSet # {}
                         THEN b.mood = <<"n","o","n","-","f","i","n","i","t","e">>
                         ELSE b.mood = <<"i","n","d","i","c","a","t","i","v","e">>

\* a rendered list whose first form lists the tag future before the tag
\* present and names no mood: it is filed under indicative, present, plural
C16_Witness ==
    /\ md # NotRun
    /\ isComplexLanguage
    /\ Len(forms) = 2
    /\ forms[1].tags = << <<"f","u","t","u","r","e">>, <<"p","r","e","s","e","n","t">>, <<"p","l","u","r","a","l">> >>
    /\ forms[2].tags = << <<"f","i","r","s","t","-","p","e","r","s","o","n">>, <<"s","i","n","g","u","l","a","r">>, <<"p","r","e","s","e","n","t">>, <<"i","n","d","i","c","a","t","i","v","e">> >>
    /\ LET filed == filedForms(groupForms(forms))
       IN  /\ Len(filed) = 2
           /\ \E k \in 1..2 :
                 /\ filed[k].form = forms[1]
                 /\ filed[k].mood = <<"i","n","d","i","c","a","t","i","v","e">>
                 /\ filed[k].tense = <<"p","r","e","s","e","n","t">>
                 /\ filed[k].number = <<"p","l","u","r","a","l">>
                 /\ filed[k].person = <<>>

\* the items of a sequence, each once, in the order they are first met
firstOccurrences(seq) ==
    LET first == {i \in 1..Len(seq) : \A j \in 1..(i - 1) : seq[j] # seq[i]}
        nth(k) == CHOOSE i \in first : Cardinality({j \in first : j < i}) = k - 1
    IN  [k \in 1..Cardinality(first) |-> seq[nth(k)]]

\* the surviving forms of fs, in input order
survivors(fs) == SelectSeq(fs, survives)

\* the moods of the surviving forms, in the order they are first met
moodsMet(fs) ==
    LET kept == survivors(fs)
    IN  firstOccurrences([i \in 1..Len(kept) |-> moodOf(kept[i])])

\* the tenses of the surviving forms of a mood, in the order they are first met
tensesMet(fs, mood) ==
    LET kept == SelectSeq(survivors(fs), LAMBDA f : moodOf(f) = mood)
    IN  firstOccurrences([i \in 1..Len(kept) |-> tenseOf(kept[i])])

\* the row lines of the surviving forms of a mood and tense under a finite mood
finiteRowLines(fs, mood, tense) ==
    { <<"|"," ">> \o personOf(f) \o <<" ">> \o numberOf(f) \o <<" ","|"," ">> \o f.word \o <<" ","|">> :
        f \in {g \in elements(survivors(fs)) : moodOf(g) = mood /\ tenseOf(g) = tense} }

\* the lines of ls after the k-th of the headings at the indices heads, up to
\* the next heading
sectionLines(ls, heads, k) ==
    LET from == heads[k] + 1
        to == IF k < Len(heads) THEN heads[k + 1] - 1 ELSE Len(ls)
    IN  IF to < from THEN <<>> ELSE SubSeq(ls, from, to)

\* C17: in the complex branch the section of a mood other than non-finite shows
\* one sub-heading and one table per tense bucket, in the order the tenses are
\* first met among the forms; the bucket of the empty tense is shown when the
\* mood is imperative and left out for every other mood.
C17_FiniteMoodBuckets ==
    (md # NotRun /\ isComplexLanguage /\ survivors(forms) # <<>>) =>
        LET ls == linesOf(md)
            heads == linesStarting(ls, <<"#","#","#","#"," ">>)
            met == moodsMet(forms)
        IN  /\ Len(heads) = Len(met)
            /\ \A k \in 1..Len(met) :
                  met[k] # <<"n","o","n","-","f","i","n","i","t","e">> =>
                      LET section == sectionLines(ls, heads, k)
                          emitted == SelectSeq(tensesMet(forms, met[k]),
                                         LAMBDA t : t # <<>> \/ met[k] = <<"i","m","p","e","r","a","t","i","v","e">>)
                          subheadings == linesStarting(section, <<"#","#","#","#","#"," ","T","e","n","s","e",":"," ">>)
                          tables == tablesOf(join(section, <<"\n">>))
                      IN  /\ ls[heads[k]] = <<"#","#","#","#"," ","M","o","o","d",":"," ">> \o met[k]
                          /\ Len(subheadings) = Len(emitted)
                          /\ Len(tables) = Len(emitted)
                          /\ \A j \in 1..Len(emitted) :
                                /\ section[subheadings[j] + 1] = <<"|"," ","P","e","r","s","o","n"," ","&"," ","N","u","m","b","e","r"," ","|"," ","F","o","r","m"," ","|">>
                                /\ section[subheadings[j] + 2] = <<"|","-","-","-","|","-","-","-","|">>
                                /\ elements(tables[j])
                                     = finiteRowLines(forms, met[k], emitted[j])

\* a rendered list [imperative without tense, indicative without tense,
\* indicative preterite]: the imperative section shows the bucket of the empty
\* tense, the indicative section shows the preterite bucket only
C17_Witness ==
    /\ md # NotRun
    /\ isComplexLanguage
    /\ Len(forms) = 3
    /\ forms[1].tags = << <<"i","m","p","e","r","a","t","i","v","e">>, <<"s","e","c","o","n","d","-","p","e","r","s","o","n">>, <<"s","i","n","g","u","l","a","r">> >>
    /\ forms[2].tags = << <<"m","a","s","c","u","l","i","n","e">> >>
    /\ forms[3].tags = << <<"i","n","d","i","c","a","t","i","v","e">>, <<"p","r","e","t","e","r","i","t","e">>, <<"f","i","r","s","t","-","p","e","r","s","o","n">>, <<"s","i","n","g","u","l","a","r">> >>
    /\ tensesMet(forms, <<"i","n","d","i","c","a","t","i","v","e">>) = << <<>>, <<"p","r","e","t","e","r","i","t","e">> >>
    /\ LET tables == tablesOf(md)
       IN  /\ Len(tables) = 2
           /\ tables[1] = << <<"|"," ","s","e","c","o","n","d","-","p","e","r","s","o","n"," ","s","i","n","g","u","l","a","r"," ","|"," ","a","m","a"," ","|">> >>
           /\ tables[2] = << <<"|"," ","f","i","r","s","t","-","p","e","r","s","o","n"," ","s","i","n","g","u","l","a","r"," ","|"," ","a","m","o"," ","|">> >>

\* the row lines of the surviving forms of the non-finite mood that have no tense
nonFiniteRowLines(fs) ==
    { <<"|"," ">> \o join(f.tags, <<","," ">>) \o <<" ","|"," ">> \o f.word \o <<" ","|">> :
        f \in {g \in elements(survivors(fs)) :
                 moodOf(g) = <<"n","o","n","-","f","i","n","i","t","e">> /\ tenseOf(g) = <<>>} }

\* C18: in the complex branch the non-finite forms are shown under the heading
\* "Non-finite forms" as one table, Name | Form, whose rows are the tags joined
\* by ", " and the word of every non-finite form without a tense; a non-finite
\* form with a tense is not shown; no row appears twice in the table.
C18_NonFiniteTable ==
    (md # NotRun /\ isComplexLanguage /\ survivors(forms) # <<>>) =>
        LET ls == linesOf(md)
            heads == linesStarting(ls, <<"#","#","#","#"," ">>)
            met == moodsMet(forms)
        IN  /\ Len(heads) = Len(met)
            /\ \A k \in 1..Len(met) :
                  met[k] = <<"n","o","n","-","f","i","n","i","t","e">> <=> ls[heads[k]] = <<"#","#","#","#"," ","N","o","n","-","f","i","n","i","t","e"," ","f","o","r","m","s">>
            /\ \A k \in 1..Len(met) :
                  met[k] = <<"n","o","n","-","f","i","n","i","t","e">> =>
                      LET section == sectionLines(ls, heads, k)
                          tables == tablesOf(join(section, <<"\n">>))
                      IN  /\ section[1] = <<"|"," ","N","a","m","e"," ","|"," ","F","o","r","m"," ","|">>
                          /\ section[2] = <<"|","-","-","-","|","-","-","-","|">>
                          /\ linesStarting(section, <<"#","#","#","#","#">>) = <<>>
                          /\ Len(tables) = 1
                          /\ elements(tables[1]) = nonFiniteRowLines(forms)
                          /\ \A i, j \in 1..Len(tables[1]) :
                                tables[1][i] = tables[1][j] => i = j

\* a rendered list [infinitive, participle with a tense, the same infinitive]:
\* the table holds the row of the infinitive once and no row of the participle
C18_Witness ==
    /\ md # NotRun
    /\ isComplexLanguage
    /\ Len(forms) = 3
    /\ forms[1].tags = << <<"i","m","p","e","r","s","o","n","a","l">>, <<"i","n","f","i","n","i","t","i","v","e">> >>
    /\ forms[2].tags = << <<"p","a","r","t","i","c","i","p","l","e">>, <<"p","e","r","f","e","c","t">> >>
    /\ forms[3] = forms[1]
    /\ tablesOf(md) = << << <<"|"," ","i","m","p","e","r","s","o","n","a","l",","," ","i","n","f","i","n","i","t","i","v","e"," ","|"," ","a","m","a","r"," ","|">> >> >>

\* what a line of a sense outline is: "item" for a numbered definition, or the
\* label of a field line, the text between "- **" and ":**"
lineKind(line) ==
    LET text == sliceFrom(line, indentOf(line))
    IN  IF startsWith(text, <<"-"," ","*","*">>)
        THEN slice(text, Len(<<"-"," ","*","*">>), indexOf(text, <<":","*","*">>))
        ELSE <<"i","t","e","m">>

\* the kinds of the lines of a sense outline, in order
lineKinds(text) ==
    LET ls == SelectSeq(linesOf(text), LAMBDA l : l # <<>> /\ l # <<"#","#","#"," ","S","e","n","s","e","s">>)
    IN  [k \in 1..Len(ls) |-> lineKind(ls[k])]

\* the labels of the quotes of a sense: Quote 1, Quote 2, ...
quoteKinds(s) == [k \in 1..Len(s.quotes) |-> <<"Q","u","o","t","e"," ">> \o numToString(k)]

\* the labels of the non-empty fields of a sense, in the order of its level
fieldKinds(s, top) ==
    LET examples == IF s.examples # <<>> THEN << <<"E","x","a","m","p","l","e","s">> >> ELSE <<>>
        synonyms == IF s.synonyms # <<>> THEN << <<"S","y","n","o","n","y","m","s">> >> ELSE <<>>
        antonyms == IF s.antonyms # <<>> THEN << <<"A","n","t","o","n","y","m","s">> >> ELSE <<>>
    IN  IF top THEN examples \o quoteKinds(s) \o synonyms \o antonyms
        ELSE synonyms \o antonyms \o examples \o quoteKinds(s)

\* the kinds of the lines a list of senses is expected to print: for every
\* sense its item, its fields, then its subsenses
RECURSIVE outlineKinds(_, _)
outlineKinds(ss, top) ==
    concatAll([n \in 1..Len(ss) |->
        << <<"i","t","e","m">> >> \o fieldKinds(ss[n], top) \o outlineKinds(ss[n].subsenses, FALSE)])

\* C19: a top-level sense prints after its definition its non-empty fields in
\* the order Examples, Quotes, Synonyms, Antonyms, a subsense at any depth in
\* the order Synonyms, Antonyms, Examples, Quotes; an empty field prints no
\* line; every quote is labelled with its position, from 1, in the quote list of
\* its own sense; the subsenses follow all fields of their parent.
C19_SenseFieldOrder ==
    (md # NotRun /\ senses # <<>>) => lineKinds(md) = outlineKinds(senses, TRUE)

\* a rendered sense with every field filled whose one subsense has every field
\* filled: the two print their fields in the two orders, each numbering its own
\* quotes from 1
C19_Witness ==
    /\ md # NotRun
    /\ Len(senses) = 1
    /\ senses[1].examples # <<>>
    /\ Len(senses[1].quotes) = 2
    /\ Len(senses[1].subsenses) = 1
    /\ Len(senses[1].subsenses[1].quotes) = 2
    /\ senses[1].subsenses[1].synonyms # <<>>
    /\ lineKinds(md) =
         << <<"i","t","e","m">>, <<"E","x","a","m","p","l","e","s">>, <<"Q","u","o","t","e"," ","1">>, <<"Q","u","o","t","e"," ","2">>, <<"S","y","n","o","n","y","m","s">>, <<"A","n","t","o","n","y","m","s">>,
            <<"i","t","e","m">>, <<"S","y","n","o","n","y","m","s">>, <<"A","n","t","o","n","y","m","s">>, <<"E","x","a","m","p","l","e","s">>, <<"Q","u","o","t","e"," ","1">>, <<"Q","u","o","t","e"," ","2">> >>

\* every assignment of a pronunciation to a bucket, in encounter order: one per
\* tag of a tagged pronunciation, one to "-" for an untagged one
assignments(ps) ==
    concatAll([i \in 1..Len(ps) |->
        IF ps[i].tags = <<>>
        THEN << [key |-> <<"-">>, text |-> ps[i].text, type |-> ps[i].type] >>
        ELSE [t \in 1..Len(ps[i].tags) |->
                 [key |-> ps[i].tags[t], text |-> ps[i].text, type |-> ps[i].type]]])

\* C20: the pronunciation table has exactly one row per distinct bucket key (a
\* dialect tag or "-"), the rows in the order the keys are first met; a row
\* lists the texts assigned to its bucket in encounter order, joined by ", ",
\* and shows as phonetic system the type of the first pronunciation assigned
\* to the bucket.
C20_OneRowPerBucket ==
    (md # NotRun /\ Len(pronunciations) > 0) =>
        LET ls == SelectSeq(linesOf(md), LAMBDA l : startsWith(l, <<"|"," ">>))
            assigned == assignments(pronunciations)
            keys == firstOccurrences([i \in 1..Len(assigned) |-> assigned[i].key])
        IN  /\ Len(ls) = Len(keys) + 1
            /\ \A k \in 1..Len(keys) :
                  LET bucket == SelectSeq(assigned, LAMBDA a : a.key = keys[k])
                  IN  ls[k + 1] = <<"|"," ">> \o keys[k] \o <<" ","|"," ">>
                                  \o join([i \in 1..Len(bucket) |-> bucket[i].text], <<","," ">>)
                                  \o <<" ","|"," ">> \o bucket[1].type \o <<" ","|">>

\* a rendered list [X fi (UK), IPA fu: (UK, US), IPA fa ()]: the row UK comes
\* first, lists fi then fu: and shows X, the type of its first contributor
C20_Witness ==
    /\ md # NotRun
    /\ Len(pronunciations) = 3
    /\ pronunciations[1].type = <<"X">>
    /\ pronunciations[1].tags = << <<"U","K">> >>
    /\ pronunciations[2].type = <<"I","P","A">>
    /\ pronunciations[2].tags = << <<"U","K">>, <<"U","S">> >>
    /\ pronunciations[3].tags = <<>>
    /\ SelectSeq(linesOf(md), LAMBDA l : startsWith(l, <<"|"," ">>))
         = << <<"|"," ","D","i","a","l","e","c","t"," ","|"," ","P","r","o","n","u","n","c","i","a","t","i","o","n"," ","|"," ","P","h","o","n","e","t","i","c"," ","S","y","s","t","e","m"," ","|"," ">>,
              <<"|"," ","U","K"," ","|"," ","f","i",","," ","f","u",":"," ","|"," ","X"," ","|">>,
              <<"|"," ","U","S"," ","|"," ","f","u",":"," ","|"," ","I","P","A"," ","|">>,
              <<"|"," ","-"," ","|"," ","f","a"," ","|"," ","I","P","A"," ","|">> >>

\* C21: whatever the outcome of the upstream fetch (ok response, not-found
\* response, network error, unparsable body), fetchEntry resolves to a string
\* and never rejects; when no definitions are found or an error occurs that
\* string is the no-definitions-found message; and the search command
\* eventually replaces its "Loading..." text.
C21_FailureSurfacesAsText ==
    /\ [](res # NoResponse => md # Rejected)
    /\ [](res \in Responses \ {"ok"} => md = notFoundMessage)
    /\ <>(markdown # Loading)

\* the stored entries whose key is not key
entriesOtherThan(favorites, key) ==
    {favorites[k] : k \in {j \in 1..Len(favorites) :
                              favoriteKey(favorites[j].language, favorites[j].word) # key}}

\* C22: no update is lost in the favorites store.  Whenever a call of addEntry
\* or removeEntry writes the list back, however its read and its write
\* interleave with those of other calls on other keys, the entries stored
\* under every other key are the same after the write as before it (what
\* another call added is kept, what another call removed stays absent), an
\* addEntry call leaves an entry with its key in the list and a removeEntry
\* call leaves no entry with its language and word.
C22_NoLostUpdate ==
    [][\A i \in 1..Len(pending) :
          (ResumeAddEntry(i) \/ ResumeRemoveEntry(i)) =>
              LET c == pending[i]
                  key == favoriteKey(c.language, c.word)
              IN  /\ entriesOtherThan(storage', key) = entriesOtherThan(storage, key)
                  /\ c.op = "addEntry" =>
                        \E k \in 1..Len(storage') :
                            favoriteKey(storage'[k].language, storage'[k].word) = key
                  /\ c.op = "removeEntry" =>
                        ~exists(storage', c.language, c.word)]_vars

====
